---- MODULE Spec2Model ----
(***************************************************************************)
(* Model of the external-content acquisition pipeline of the               *)
(* business-card-manager repository: the URL content cache, the two rate   *)
(* limiters, the retry executor, the URL normalizer / validator and the    *)
(* URL analysis routes.                                                    *)
(*                                                                         *)
(* Time (Date.now()) is a natural number; the millisecond constants of     *)
(* the source (24 h TTL, 60 s windows) are scaled down to a few ticks.     *)
(***************************************************************************)
EXTENDS Integers, Sequences, FiniteSets, TLC

(***************************************************************************)
(* Bounds of the model.                                                    *)
(***************************************************************************)
\* last value of the clock, in milliseconds
MaxTime == 1500
\* the clock advances in steps of this many milliseconds
TickMs == 500
\* largest maxRetries option tried on the retry executor
MaxRetriesTried == 3
\* most get calls made on the cache by the batch operations
MaxGets == 4
\* largest attempt index calculateDelay is called with
MaxAttempt == 12
\* Math.random() takes the values 0/RandomSteps .. (RandomSteps-1)/RandomSteps
RandomSteps == 3
SliceEnd == 2
maxRedirects == 3
\* identities that call the rate limiters
Ids == {"ipA", "ipB"}

(***************************************************************************)
(* Scaled program constants.                                               *)
(***************************************************************************)
\* URLContentCache.maxSize (100 in the source), scaled
maxSize == 3
\* URLContentCache.ttl (24 h in the source), scaled
ttl == 1000
\* the timeout of the controller in fetchUrlContent (15000 in the code)
fetchTimeoutMs == 1000
\* the limiters' windowMs (60000 in the source), scaled
windowMs == 1500
\* the limiters' maxRequests (10, 20 or 60 in the source), scaled
maxRequests == 2
\* milliseconds per second, the divisor of retryAfter
MsPerSecond == 1000

\* keys and contents used to drive the cache on its own
CacheKeys == {"u1", "u2", "u3", "u4"}
Contents == {"c1", "c2"}

VARIABLES
  now,        \* Date.now()
  cache,      \* URLContentCache.cache: the Map, in insertion order
  lastOp,     \* the cache call made by the last step and what it returned
  useOrder,   \* ghost: the stored keys, least recently accessed first, where an
              \* access is the insertion of a new key or a get that returns it
  lastSetAt   \* ghost: per stored key, the time of the last set(key); -1 if
              \* the key is not stored

cacheVars == <<cache, lastOp, useOrder, lastSetAt>>

VARIABLES
  store,      \* fixed-window RateLimiter.store: per identifier <<>> or
              \* <<[count, resetTime]>>
  requests,   \* sliding-log RateLimiter.requests: per identifier the times of
              \* the recorded requests
  checkLog    \* ghost: per identifier, the check calls made so far: time and
              \* the result of either limiter

limVars == <<store, requests, checkLog>>

VARIABLES
  options,    \* the RetryOptions of the withRetry call under way
  plan,       \* what fn does on its n-th invocation: resolve, or reject with an error
  retry       \* the withRetry call: control point, attempt, invocations, result

retryVars == <<options, plan, retry>>

VARIABLES
  input,      \* the argument a pure function is called with
  output      \* the function called last and what it returned

urlVars == <<input, output>>

VARIABLES
  request,    \* the multi-URL POST under way or answered last: control point,
              \* limiter result, per-URL tasks, analysis input and response
  issued,     \* ghost: the HTTP requests sent for URLs during that POST
  counters,   \* URLContentCache.hitCount and missCount
  apiKey,     \* whether GEMINI_API_KEY is configured
  inbound     \* the bodies of the POSTs still to arrive, in order

routeVars == <<request, issued, counters, apiKey, inbound>>

VARIABLES
  expand      \* the expand-url POST under way or answered last: control
              \* point, the results object, the loop's locals and its response

VARIABLES
  getCalls    \* ghost of the batch cache operations: the number of
              \* URLContentCache.get calls made so far

vars ==
  <<now, cacheVars, limVars, retryVars, urlVars, routeVars, expand, getCalls>>

notCache == <<limVars, retryVars, urlVars, routeVars, expand,
  getCalls>>
notLimiter == <<cacheVars, retryVars, urlVars, routeVars, expand,
  getCalls>>
notRetry == <<now, cacheVars, limVars, urlVars, routeVars, expand,
  getCalls>>
notUrl == <<now, cacheVars, limVars, retryVars, routeVars, expand,
  getCalls>>
notRoute ==
  <<lastOp, useOrder, lastSetAt, store, checkLog, retryVars, urlVars, expand,
    getCalls>>
notExpand ==
  <<now, cacheVars, limVars, retryVars, urlVars, routeVars, getCalls>>
notBatch ==
  <<lastOp, useOrder, lastSetAt, limVars, retryVars, urlVars, request, issued,
    apiKey, inbound, expand>>

(***************************************************************************)
(* JavaScript Map, kept as the sequence of its entries in insertion order. *)
(***************************************************************************)
MapHas(m, k) == \E i \in 1..Len(m) : m[i].url = k

MapIndex(m, k) == CHOOSE i \in 1..Len(m) : m[i].url = k

MapGet(m, k) == m[MapIndex(m, k)]

MapDelete(m, k) ==
  IF MapHas(m, k)
    THEN LET i == MapIndex(m, k)
         IN  SubSeq(m, 1, i - 1) \o SubSeq(m, i + 1, Len(m))
    ELSE m

\* Map.prototype.set: an existing key keeps its position, a new key is appended
MapSet(m, k, e) ==
  IF MapHas(m, k)
    THEN [m EXCEPT ![MapIndex(m, k)] = e]
    ELSE Append(m, e)

MapKeys(m) == {m[i].url : i \in 1..Len(m)}

(***************************************************************************)
(* URLContentCache                                                         *)
(***************************************************************************)
\* (variant: the entry expires one tick early)
ExpiredAtTtl(e, t) == t - e.timestamp >= ttl

Expired(e, t) == t - e.timestamp > ttl

\* (variant: a hit leaves the entry where it is in the Map)
CacheGetNoMove(m, url, t) ==
  IF ~MapHas(m, url)
    THEN [ret |-> <<>>, cache |-> m]
    ELSE LET entry == MapGet(m, url)
         IN  IF Expired(entry, t)
               THEN [ret |-> <<>>, cache |-> MapDelete(m, url)]
               ELSE [ret |-> <<entry>>, cache |-> m]

\* get(url): the returned entry (<<>> for null) and the Map afterwards
CacheGet(m, url, t) ==
  IF ~MapHas(m, url)
    THEN [ret |-> <<>>, cache |-> m]
    ELSE LET entry == MapGet(m, url)
         IN  IF Expired(entry, t)
               THEN [ret |-> <<>>, cache |-> MapDelete(m, url)]
               ELSE [ret |-> <<entry>>,
                     cache |-> MapSet(MapDelete(m, url), url, entry)]

\* (variant: a full Map takes the new key without evicting)
CacheSetNoEvict(m, url, content, t) ==
  MapSet(m, url, [url |-> url, content |-> content, timestamp |-> t])

\* set(url, data): the Map afterwards.  Keys are URLs, never the empty
\* string, so `if (firstKey)' is true whenever the Map has a first key.
CacheSet(m, url, content, t) ==
  LET evicted == IF Len(m) >= maxSize /\ ~MapHas(m, url) /\ Len(m) > 0
                   THEN MapDelete(m, m[1].url)
                   ELSE m
  IN  MapSet(evicted, url, [url |-> url, content |-> content, timestamp |-> t])

CacheClearExpired(m, t) == SelectSeq(m, LAMBDA e : ~Expired(e, t))

NoOp == [op |-> "none", url |-> "", ret |-> <<>>, removed |-> {}]

CacheInit ==
  /\ cache = <<>>
  /\ lastOp = NoOp
  /\ useOrder = <<>>
  /\ lastSetAt = [k \in CacheKeys |-> -1]

\* the ghosts forget the keys that left the Map
Stored(order, m) == SelectSeq(order, LAMBDA k : MapHas(m, k))
Touch(order, k) == Append(SelectSeq(order, LAMBDA x : x # k), k)
SetTimes(times, m) == [k \in CacheKeys |-> IF MapHas(m, k) THEN times[k] ELSE -1]

Get(url) ==
  /\ UNCHANGED notCache
  /\ LET r == CacheGet(cache, url, now)
     IN  /\ cache' = r.cache
         /\ lastOp' = [op |-> "get", url |-> url, ret |-> r.ret,
                     removed |-> MapKeys(cache) \ MapKeys(r.cache)]
         /\ useOrder' = Stored(IF r.ret # <<>> THEN Touch(useOrder, url)
                                               ELSE useOrder, r.cache)
         /\ lastSetAt' = SetTimes(lastSetAt, r.cache)
  /\ UNCHANGED now

Set(url, content) ==
  /\ UNCHANGED notCache
  /\ cache' = CacheSet(cache, url, content, now)
  /\ lastOp' = [op |-> "set", url |-> url, ret |-> <<>>,
                removed |-> MapKeys(cache) \ MapKeys(cache')]
  /\ useOrder' = Stored(IF MapHas(cache, url) THEN useOrder
                                              ELSE Touch(useOrder, url), cache')
  /\ lastSetAt' = SetTimes([lastSetAt EXCEPT ![url] = now], cache')
  /\ UNCHANGED now

ClearExpired ==
  /\ UNCHANGED notCache
  /\ cache' = CacheClearExpired(cache, now)
  /\ lastOp' = [op |-> "clearExpired", url |-> "", ret |-> <<>>,
                removed |-> MapKeys(cache) \ MapKeys(cache')]
  /\ useOrder' = Stored(useOrder, cache')
  /\ lastSetAt' = SetTimes(lastSetAt, cache')
  /\ UNCHANGED now

Clear ==
  /\ UNCHANGED notCache
  /\ cache # <<>>
  /\ cache' = <<>>
  /\ lastOp' = [op |-> "clear", url |-> "", ret |-> <<>>,
                removed |-> MapKeys(cache)]
  /\ useOrder' = <<>>
  /\ lastSetAt' = [k \in CacheKeys |-> -1]
  /\ UNCHANGED now

Tick ==
  /\ UNCHANGED notCache
  /\ now + TickMs <= MaxTime
  /\ now' = now + TickMs
  /\ lastOp' = [op |-> "tick", url |-> "", ret |-> <<>>, removed |-> {}]
  /\ UNCHANGED <<cache, useOrder, lastSetAt>>

CacheNext ==
  \/ \E url \in CacheKeys : Get(url)
  \/ \E url \in CacheKeys, content \in Contents : Set(url, content)
  \/ ClearExpired
  \/ Clear
  \/ Tick

LimiterInit ==
  /\ store = [id \in Ids |-> <<>>]
  /\ requests = [id \in Ids |-> <<>>]
  /\ checkLog = [id \in Ids |-> <<>>]

(***************************************************************************)
(* Rate limiters                                                           *)
(***************************************************************************)
\* Math.ceil(a / b) for b > 0
Ceil(a, b) == -((-a) \div b)

\* (variant: the remaining time is rounded down)
RetryAfterFloor(remainingMs) == remainingMs \div MsPerSecond

\* retryAfter = Math.ceil(remainingMs / 1000)
RetryAfter(remainingMs) == Ceil(remainingMs, MsPerSecond)

Allowed == [allowed |-> TRUE, retryAfter |-> <<>>]
Denied(retryAfter) == [allowed |-> FALSE, retryAfter |-> <<retryAfter>>]

\* (variant: the limit is compared with > and one more request passes)
FixedCheckOffByOne(st, identifier, t) ==
  LET existing == st[identifier]
  IN  IF existing = <<>> \/ existing[1].resetTime <= t
        THEN [ret |-> Allowed,
              store |-> [st EXCEPT ![identifier] =
                           <<[count |-> 1, resetTime |-> t + windowMs]>>]]
        ELSE IF existing[1].count > maxRequests
          THEN [ret |-> Denied(RetryAfter(existing[1].resetTime - t)), store |-> st]
          ELSE [ret |-> Allowed,
                store |-> [st EXCEPT ![identifier] =
                             <<[existing[1] EXCEPT !.count = @ + 1]>>]]

\* (variant: a denied check is counted too)
FixedCheckCountsDenied(st, identifier, t) ==
  LET existing == st[identifier]
  IN  IF existing = <<>> \/ existing[1].resetTime <= t
        THEN [ret |-> Allowed,
              store |-> [st EXCEPT ![identifier] =
                           <<[count |-> 1, resetTime |-> t + windowMs]>>]]
        ELSE [ret |-> IF existing[1].count >= maxRequests
                        THEN Denied(RetryAfter(existing[1].resetTime - t))
                        ELSE Allowed,
              store |-> [st EXCEPT ![identifier] =
                           <<[existing[1] EXCEPT !.count = @ + 1]>>]]

\* fixed-window RateLimiter.check(identifier, {windowMs, maxRequests})
FixedCheck(st, identifier, t) ==
  LET existing == st[identifier]
  IN  IF existing = <<>> \/ existing[1].resetTime <= t
        THEN [ret |-> Allowed,
              store |-> [st EXCEPT ![identifier] =
                           <<[count |-> 1, resetTime |-> t + windowMs]>>]]
        ELSE IF existing[1].count >= maxRequests
          THEN [ret |-> Denied(RetryAfter(existing[1].resetTime - t)), store |-> st]
          ELSE [ret |-> Allowed,
                store |-> [st EXCEPT ![identifier] =
                             <<[existing[1] EXCEPT !.count = @ + 1]>>]]

\* (variant: cleanup also removes a window that elapses within the next tick)
FixedCleanupEarly(st, t) ==
  [id \in DOMAIN st |->
     IF st[id] # <<>> /\ st[id][1].resetTime <= t + TickMs THEN <<>> ELSE st[id]]

\* fixed-window RateLimiter.cleanup()
FixedCleanup(st, t) ==
  [id \in DOMAIN st |->
     IF st[id] # <<>> /\ st[id][1].resetTime <= t THEN <<>> ELSE st[id]]

\* requests.filter(time => now - time < this.windowMs)
ValidRequests(times, t) == SelectSeq(times, LAMBDA time : t - time < windowMs)

\* (variant: the log is compared with > and one more request passes)
SlidingCheckOffByOne(reqs, identifier, t) ==
  LET validRequests == ValidRequests(reqs[identifier], t)
  IN  IF Len(validRequests) > maxRequests
        THEN [ret |-> Denied(RetryAfter(validRequests[1] + windowMs - t)),
              requests |-> reqs]
        ELSE [ret |-> Allowed,
              requests |-> [reqs EXCEPT ![identifier] = Append(validRequests, t)]]

\* sliding-log RateLimiter.check(identifier)
SlidingCheck(reqs, identifier, t) ==
  LET validRequests == ValidRequests(reqs[identifier], t)
  IN  IF Len(validRequests) >= maxRequests
        THEN [ret |-> Denied(RetryAfter(validRequests[1] + windowMs - t)),
              requests |-> reqs]
        ELSE [ret |-> Allowed,
              requests |-> [reqs EXCEPT ![identifier] = Append(validRequests, t)]]

\* sliding-log RateLimiter.cleanup(); a deleted identifier reads as []
SlidingCleanup(reqs, t) ==
  [id \in DOMAIN reqs |-> ValidRequests(reqs[id], t)]

\* one check call on either limiter for the same identifier at the same time
Check(identifier) ==
  /\ Len(checkLog[identifier]) < maxRequests + 2
  /\ LET f == FixedCheck(store, identifier, now)
         g == SlidingCheck(requests, identifier, now)
     IN  /\ store' = f.store
         /\ requests' = g.requests
         /\ checkLog' = [checkLog EXCEPT ![identifier] =
                           Append(@, [t |-> now, fixed |-> f.ret, sliding |-> g.ret])]
  /\ UNCHANGED <<now, notLimiter>>

\* the setInterval callback of the fixed-window limiter
CleanupFixed ==
  /\ store' = FixedCleanup(store, now)
  /\ store' # store
  /\ UNCHANGED <<now, requests, checkLog, notLimiter>>

\* the setInterval callback of the sliding-log limiter
CleanupSliding ==
  /\ requests' = SlidingCleanup(requests, now)
  /\ requests' # requests
  /\ UNCHANGED <<now, store, checkLog, notLimiter>>

Advance ==
  /\ now + TickMs <= MaxTime
  /\ now' = now + TickMs
  /\ UNCHANGED <<limVars, notLimiter>>

LimiterNext ==
  \/ \E identifier \in Ids : Check(identifier)
  \/ CleanupFixed
  \/ CleanupSliding
  \/ Advance

(***************************************************************************)
(* Retry executor                                                          *)
(***************************************************************************)
\* error values: name, HTTP status (0 when the error has none) and whether
\* the message contains 'timeout'
Err(name, status, timeoutMsg) ==
  [name |-> name, status |-> status, timeoutMsg |-> timeoutMsg]

NetworkFailure == Err("TypeError", 0, FALSE)
AbortError == Err("AbortError", 0, FALSE)
Http500 == Err("Error", 500, FALSE)
Http404 == Err("Error", 404, FALSE)

Errors == {NetworkFailure, AbortError, Http500, Http404}

\* what one invocation of fn ends in
NoError == Err("", 0, FALSE)
Resolves == [ok |-> TRUE, error |-> NoError]
Rejects(error) == [ok |-> FALSE, error |-> error]
Outcomes == {Resolves} \cup {Rejects(error) : error \in Errors}

\* what the withRetry call ends in
Pending == [kind |-> "pending", error |-> NoError]
Returned == [kind |-> "returned", error |-> NoError]
Raised(error) == [kind |-> "raised", error |-> error]

defaultShouldRetry(error) ==
  IF error.name = "NetworkError" \/ error.name = "TypeError" THEN TRUE
  ELSE IF error.name = "AbortError" \/ error.timeoutMsg THEN TRUE
  ELSE IF error.status >= 500 /\ error.status < 600 THEN TRUE
  ELSE IF error.status = 429 THEN TRUE
  ELSE IF error.status >= 400 /\ error.status < 500 THEN FALSE
  ELSE TRUE

\* (variant: the option accepts every error)
FetchShouldRetryAll(error) == TRUE

\* the shouldRetry option fetchUrlContent passes
fetchShouldRetry(error) ==
  IF error.name = "AbortError" THEN FALSE ELSE TRUE

Predicates == {"default", "fetchUrlContent"}

ShouldRetry(opts, error, attempt) ==
  IF opts.shouldRetry = "fetchUrlContent"
    THEN fetchShouldRetry(error)
    ELSE defaultShouldRetry(error)

RECURSIVE Pow(_, _)
Pow(b, n) == IF n <= 0 THEN 1 ELSE b * Pow(b, n - 1)

Min(a, b) == IF a <= b THEN a ELSE b

\* Math.round(p / q) for q > 0
Round(p, q) == (2 * p + q) \div (2 * q)

\* (variant: the jitter is half of the capped delay instead of a quarter)
CalculateDelayHalfJitter(attempt, initialDelay, maxDelay, backoffFactor, rnd) ==
  LET exponentialDelay == initialDelay * Pow(backoffFactor, attempt - 1)
      cappedDelay == Min(exponentialDelay, maxDelay)
  IN  Round(cappedDelay * (RandomSteps + 2 * rnd), 2 * RandomSteps)

\* calculateDelay, with Math.random() = rnd / RandomSteps:
\* cappedDelay + cappedDelay * 0.25 * (random * 2 - 1), rounded
calculateDelay(attempt, initialDelay, maxDelay, backoffFactor, rnd) ==
  LET exponentialDelay == initialDelay * Pow(backoffFactor, attempt - 1)
      cappedDelay == Min(exponentialDelay, maxDelay)
  IN  Round(cappedDelay * (3 * RandomSteps + 2 * rnd), 4 * RandomSteps)

DEFAULT_OPTIONS ==
  [maxRetries |-> 3, initialDelay |-> 1000, maxDelay |-> 30000,
   backoffFactor |-> 2, shouldRetry |-> "default"]

\* the state of a withRetry call before its first attempt
RetryStart ==
  [pc |-> "attempt", attempt |-> 1, calls |-> 0, delay |-> 0,
   events |-> <<>>, result |-> Pending]

\* `await fn()': fn is invoked
RetryCall(rs) ==
  [rs EXCEPT !.pc = "awaiting", !.calls = @ + 1, !.events = Append(@, "call")]

\* (variant: the loop allows one attempt fewer)
RetrySettleOneLess(rs, opts, outcome, rnd) ==
  IF outcome.ok
    THEN [rs EXCEPT !.pc = "done", !.result = Returned]
    ELSE IF rs.attempt >= opts.maxRetries
            \/ ~ShouldRetry(opts, outcome.error, rs.attempt)
      THEN [rs EXCEPT !.pc = "done", !.result = Raised(outcome.error)]
      ELSE LET delay == calculateDelay(rs.attempt, opts.initialDelay,
                                       opts.maxDelay, opts.backoffFactor, rnd)
           IN  [rs EXCEPT !.pc = "sleeping", !.delay = delay,
                          !.events = @ \o <<"onRetry", "sleep">>]

\* (variant: the sleep is started before the observer is told)
RetrySettleSleepsFirst(rs, opts, outcome, rnd) ==
  IF outcome.ok
    THEN [rs EXCEPT !.pc = "done", !.result = Returned]
    ELSE IF rs.attempt > opts.maxRetries
            \/ ~ShouldRetry(opts, outcome.error, rs.attempt)
      THEN [rs EXCEPT !.pc = "done", !.result = Raised(outcome.error)]
      ELSE LET delay == calculateDelay(rs.attempt, opts.initialDelay,
                                       opts.maxDelay, opts.backoffFactor, rnd)
           IN  [rs EXCEPT !.pc = "sleeping", !.delay = delay,
                          !.events = @ \o <<"sleep", "onRetry">>]

\* fn settles: return its value, or run the catch block up to the throw or
\* up to the sleep
RetrySettle(rs, opts, outcome, rnd) ==
  IF outcome.ok
    THEN [rs EXCEPT !.pc = "done", !.result = Returned]
    ELSE IF rs.attempt > opts.maxRetries
            \/ ~ShouldRetry(opts, outcome.error, rs.attempt)
      THEN [rs EXCEPT !.pc = "done", !.result = Raised(outcome.error)]
      ELSE LET delay == calculateDelay(rs.attempt, opts.initialDelay,
                                       opts.maxDelay, opts.backoffFactor, rnd)
           IN  [rs EXCEPT !.pc = "sleeping", !.delay = delay,
                          !.events = @ \o <<"onRetry", "sleep">>]

\* the sleep ends and the loop goes to its next attempt
RetryWake(rs) == [rs EXCEPT !.pc = "attempt", !.attempt = @ + 1, !.delay = 0]

RetryIdle ==
  /\ options = DEFAULT_OPTIONS
  /\ plan = <<>>
  /\ retry = RetryStart

CallFn ==
  /\ retry.pc = "attempt"
  /\ retry' = RetryCall(retry)
  /\ UNCHANGED <<options, plan, notRetry>>

FnSettles ==
  /\ retry.pc = "awaiting"
  /\ \E rnd \in 0..(RandomSteps - 1) :
       retry' = RetrySettle(retry, options, plan[retry.calls], rnd)
  /\ UNCHANGED <<options, plan, notRetry>>

SleepEnds ==
  /\ retry.pc = "sleeping"
  /\ retry' = RetryWake(retry)
  /\ UNCHANGED <<options, plan, notRetry>>

RetryNext == CallFn \/ FnSettles \/ SleepEnds

(***************************************************************************)
(* Strings that are read as URLs                                           *)
(*                                                                         *)
(* A string is kept as the parts a URL parser splits it into, exactly as   *)
(* they are written: scheme ("" when the string has none), the host labels *)
(* between the dots, the port (0 when none is written), the path segments  *)
(* between the slashes (<<>> when no path is written, <<"">> for "/"),     *)
(* whether a "?" is written, and the query pairs.  A query value is an     *)
(* atom, or the percent-encoded form of another such string (nested).      *)
(***************************************************************************)
Str(scheme, host, port, path, q, query) ==
  [scheme |-> scheme, host |-> host, port |-> port, path |-> path,
   q |-> q, query |-> query]

\* a query pair as written: key, whether "=" is written, value
Pair(k, v) == [k |-> k, eq |-> TRUE, v |-> v, nested |-> <<>>]
BarePair(k) == [k |-> k, eq |-> FALSE, v |-> "", nested |-> <<>>]
NestedPair(k, u) == [k |-> k, eq |-> TRUE, v |-> "", nested |-> <<u>>]

\* a path segment of 2049 characters
LongSegment == "long-segment"

AtomLen(a) == IF a = LongSegment THEN 2049 ELSE Len(a)

RECURSIVE SumLen(_)
SumLen(atoms) ==
  IF atoms = <<>> THEN 0 ELSE AtomLen(Head(atoms)) + 1 + SumLen(Tail(atoms))

RECURSIVE StrLen(_)
RECURSIVE QueryLen(_)
QueryLen(query) ==
  IF query = <<>> THEN 0
  ELSE LET p == Head(query)
       IN  AtomLen(p.k) + 1 + AtomLen(p.v)
           + (IF p.nested = <<>> THEN 0 ELSE StrLen(p.nested[1]))
           + 1 + QueryLen(Tail(query))

\* url.length
StrLen(s) ==
  Len(s.scheme) + 3 + SumLen(s.host) + (IF s.port = 0 THEN 0 ELSE 5)
  + SumLen(s.path) + QueryLen(s.query)

\* String.prototype.toLowerCase on the labels the inputs use
ToLower(label) ==
  CASE label = "WWW" -> "www"
    [] label = "LOCALHOST" -> "localhost"
    [] OTHER -> label

DecimalLabels ==
  {"0", "1", "2", "8", "10", "16", "31", "32", "127", "168", "172", "192"}

SpecialSchemes == {"http", "https", "ftp"}

DefaultPort(scheme) ==
  CASE scheme = "http" -> 80
    [] scheme = "https" -> 443
    [] scheme = "ftp" -> 21
    [] OTHER -> 0

\* the URL parser's host parser: lower-cases; a host whose last label is a
\* number is an IPv4 address, whose missing parts are filled with zeros
ParseHost(labels) ==
  LET lower == [i \in 1..Len(labels) |-> ToLower(labels[i])]
      n == Len(lower)
  IN  IF n = 0 THEN [ok |-> FALSE, host |-> <<>>]
      ELSE IF lower[n] \in DecimalLabels
        THEN IF n <= 4 /\ \A i \in 1..n : lower[i] \in DecimalLabels
               THEN [ok |-> TRUE,
                     host |-> CASE n = 4 -> lower
                                [] n = 3 -> <<lower[1], lower[2], "0", lower[3]>>
                                [] n = 2 -> <<lower[1], "0", "0", lower[2]>>
                                [] OTHER -> <<"0", "0", "0", lower[1]>>]
               ELSE [ok |-> FALSE, host |-> <<>>]
        ELSE [ok |-> TRUE, host |-> lower]

\* percent-decoding of the query atoms the inputs use ("+" is a space)
DecodeAtom(a) ==
  CASE a = "a%20b" -> "a b"
    [] a = "a+b" -> "a b"
    [] OTHER -> a

\* application/x-www-form-urlencoded serialization of an atom
EncodeAtom(a) == IF a = "a b" THEN "a+b" ELSE a

\* new URLSearchParams(search): the list of decoded name-value pairs
SearchParams(query) ==
  [i \in 1..Len(query) |->
     [name |-> DecodeAtom(query[i].k), value |-> DecodeAtom(query[i].v),
      nested |-> query[i].nested]]

\* URLSearchParams.toString(): every pair is written name=value
SerializeParams(params) ==
  [i \in 1..Len(params) |->
     [k |-> EncodeAtom(params[i].name), eq |-> TRUE,
      v |-> EncodeAtom(params[i].value), nested |-> params[i].nested]]

NotAUrl ==
  [ok |-> FALSE, protocol |-> "", hostname |-> <<>>, port |-> 0,
   pathname |-> <<>>, q |-> FALSE, search |-> <<>>]

\* new URL(url); ok is FALSE when the constructor throws
ParseURL(s) ==
  IF s.scheme = "" THEN NotAUrl
  ELSE IF s.scheme \in SpecialSchemes
    THEN LET h == ParseHost(s.host)
         IN  IF ~h.ok THEN NotAUrl
             ELSE [ok |-> TRUE, protocol |-> s.scheme, hostname |-> h.host,
                   port |-> IF s.port = DefaultPort(s.scheme) THEN 0 ELSE s.port,
                   pathname |-> IF s.path = <<>> THEN <<"">> ELSE s.path,
                   q |-> s.q, search |-> s.query]
    ELSE \* another scheme: the host is opaque and no port is the default
         [ok |-> TRUE, protocol |-> s.scheme, hostname |-> s.host,
          port |-> s.port, pathname |-> s.path, q |-> s.q, search |-> s.query]

\* URL.prototype.toString(): the href
Href(u) ==
  Str(u.protocol, u.hostname, u.port, u.pathname, u.q, u.search)

trackingParams ==
  {"utm_source", "utm_medium", "utm_campaign", "utm_term", "utm_content",
   "fbclid", "gclid", "dclid", "msclkid", "mc_cid", "mc_eid"}

\* hostname.replace(/^www\./, ''): the first "www." only
StripWww(hostname) ==
  IF Len(hostname) >= 2 /\ hostname[1] = "www" THEN Tail(hostname) ELSE hostname

\* the hostname setter ignores a value the host parser rejects
SetHostname(u, hostname) ==
  IF u.protocol \notin SpecialSchemes THEN [u EXCEPT !.hostname = hostname]
  ELSE IF ParseHost(hostname).ok
    THEN [u EXCEPT !.hostname = ParseHost(hostname).host]
    ELSE u

\* pathname.slice(0, -1) when the path is not "/" and ends with "/"
StripSlash(pathname) ==
  IF pathname # <<"">> /\ Len(pathname) >= 1 /\ pathname[Len(pathname)] = ""
    THEN SubSeq(pathname, 1, Len(pathname) - 1)
    ELSE pathname

\* the pathname setter: the path of a special scheme is never empty
SetPathname(u, pathname) ==
  IF u.protocol \in SpecialSchemes
    THEN [u EXCEPT !.pathname = IF pathname = <<>> THEN <<"">> ELSE pathname]
    ELSE [u EXCEPT !.pathname = pathname]

\* searchParams.delete(param) for every tracking parameter; each delete
\* rewrites the query from the list
DeleteTracking(u) ==
  LET kept == SelectSeq(SearchParams(u.search),
                        LAMBDA p : p.name \notin trackingParams)
  IN  [u EXCEPT !.search = SerializeParams(kept), !.q = kept # <<>>]

normalizeUrl(url) ==
  LET urlObj == ParseURL(url)
  IN  IF ~urlObj.ok THEN url
      ELSE LET u1 == IF urlObj.protocol = "http"
                       THEN [urlObj EXCEPT !.protocol = "https",
                                           !.port = IF @ = 443 THEN 0 ELSE @]
                       ELSE urlObj
               u2 == SetHostname(u1, StripWww(u1.hostname))
               u3 == SetPathname(u2, StripSlash(u2.pathname))
           IN  Href(DeleteTracking(u3))

\* validateUrl's results; the error names the check that failed
Valid == [isValid |-> TRUE, error |-> ""]
Invalid(error) == [isValid |-> FALSE, error |-> error]

blockedHosts ==
  {<<"localhost">>, <<"127", "0", "0", "1">>, <<"0", "0", "0", "0">>,
   <<"::1">>, <<"[::1]">>}

\* /^(10\.|172\.(1[6-9]|2[0-9]|3[01])\.|192\.168\.)/ on the hostname
privateIPRegex(hostname) ==
  \/ Len(hostname) >= 2 /\ hostname[1] = "10"
  \/ /\ Len(hostname) >= 3
     /\ hostname[1] = "172"
     /\ hostname[2] \in {"16", "17", "18", "19", "20", "21", "22", "23",
                        "24", "25", "26", "27", "28", "29", "30", "31"}
  \/ Len(hostname) >= 3 /\ hostname[1] = "192" /\ hostname[2] = "168"

\* atoms in which /file:\/\//i, /javascript:/i, /data:/i or /vbscript:/i match
SuspiciousAtoms == {"data:x", "javascript:x"}

\* one of suspiciousPatterns matches the string as written
suspiciousPatterns(url) ==
  \/ url.scheme \in {"file", "javascript", "data", "vbscript"}
  \/ \E i \in 1..Len(url.path) : url.path[i] \in SuspiciousAtoms
  \/ \E i \in 1..Len(url.query) :
       url.query[i].k \in SuspiciousAtoms \/ url.query[i].v \in SuspiciousAtoms

validateUrl(url) ==
  LET urlObj == ParseURL(url)
  IN  IF ~urlObj.ok THEN Invalid("format")
      ELSE IF urlObj.protocol \notin {"http", "https"} THEN Invalid("protocol")
      ELSE IF urlObj.hostname \in blockedHosts THEN Invalid("localhost")
      ELSE IF privateIPRegex(urlObj.hostname) THEN Invalid("privateIP")
      ELSE IF suspiciousPatterns(url) THEN Invalid("pattern")
      ELSE IF StrLen(url) > 2048 THEN Invalid("length")
      ELSE Valid

TLDs == {"com", "org", "net", "jp", "co", "io", "ai", "app", "dev"}

\* /\.(com|org|net|jp|co|io|ai|app|dev)\b/i matches somewhere in the string
RECURSIVE HasTld(_)
HasTld(str) ==
  \/ \E i \in 2..Len(str.host) : ToLower(str.host[i]) \in TLDs
  \/ \E i \in 1..Len(str.path) : str.path[i] \in {"b.com"}
  \/ \E i \in 1..Len(str.query) :
       str.query[i].nested # <<>> /\ HasTld(str.query[i].nested[1])

isUrlLike(str) ==
  \/ str.scheme \in {"http", "https"}
  \/ str.scheme = "" /\ Len(str.host) >= 2 /\ ToLower(str.host[1]) = "www"
  \/ HasTld(str)

\* path segments that decode to something URL-like, as the string they are
UrlLikeSegments == {"b.com"}
SegmentString(segment) == Str("", <<"b", "com">>, 0, <<>>, FALSE, <<>>)

\* path segments on which decodeURIComponent throws URIError
MalformedSegments == {"50%off"}

RECURSIVE Dedupe(_)
\* [...new Set(urls)]
Dedupe(urls) ==
  IF urls = <<>> THEN <<>>
  ELSE LET front == Dedupe(SubSeq(urls, 1, Len(urls) - 1))
           last == urls[Len(urls)]
       IN  IF \E i \in 1..Len(front) : front[i] = last
             THEN front ELSE Append(front, last)

RECURSIVE FromPath(_)
\* the pathSegments.forEach loop: the URL-like segments, up to the first
\* segment that decodeURIComponent rejects
FromPath(segments) ==
  IF segments = <<>> \/ Head(segments) \in MalformedSegments THEN <<>>
  ELSE (IF Head(segments) \in UrlLikeSegments
          THEN <<SegmentString(Head(segments))>> ELSE <<>>)
       \o FromPath(Tail(segments))

RECURSIVE extractNestedUrls(_)
RECURSIVE FromQuery(_)
\* the searchParams.forEach loop
FromQuery(params) ==
  IF params = <<>> THEN <<>>
  ELSE LET p == Head(params)
       IN  (IF p.nested # <<>> /\ isUrlLike(p.nested[1])
              THEN <<p.nested[1]>> \o extractNestedUrls(p.nested[1])
              ELSE <<>>)
           \o FromQuery(Tail(params))

\* (variant: the collected list is returned as it is)
ExtractKeepsDuplicates(url) ==
  LET urlObj == ParseURL(url)
  IN  IF ~urlObj.ok THEN <<>>
      ELSE FromQuery(SearchParams(urlObj.search)) \o FromPath(urlObj.pathname)

extractNestedUrls(url) ==
  LET urlObj == ParseURL(url)
  IN  IF ~urlObj.ok THEN <<>>
      ELSE Dedupe(FromQuery(SearchParams(urlObj.search))
                  \o FromPath(urlObj.pathname))

shortUrlDomains ==
  {<<"bit", "ly">>, <<"tinyurl", "com">>, <<"goo", "gl">>, <<"ow", "ly">>,
   <<"t", "co">>, <<"buff", "ly">>, <<"is", "gd">>, <<"cutt", "ly">>,
   <<"short", "link">>, <<"rebrand", "ly">>, <<"bl", "ink">>,
   <<"lnkd", "in">>, <<"youtu", "be">>, <<"forms", "gle">>,
   <<"docs", "google", "com/forms">>}

\* hostname === domain || hostname.endsWith('.' + domain)
EndsWithDomain(hostname, domain) ==
  /\ Len(hostname) >= Len(domain)
  /\ SubSeq(hostname, Len(hostname) - Len(domain) + 1, Len(hostname)) = domain

isShortUrl(url) ==
  LET urlObj == ParseURL(url)
  IN  /\ urlObj.ok
      /\ \E domain \in shortUrlDomains : EndsWithDomain(urlObj.hostname, domain)

(***************************************************************************)
(* The URL functions, each applied to every string of UrlInputs            *)
(***************************************************************************)
InputSchemes == {"", "http", "https", "ftp"}

InputHosts ==
  {<<"a", "com">>, <<"www", "a", "com">>, <<"WWW", "a", "com">>,
   <<"www", "www", "a", "com">>, <<"bit", "ly">>,
   <<"localhost">>, <<"LOCALHOST">>, <<"www", "localhost">>, <<"[::1]">>,
   <<"127", "0", "0", "1">>, <<"127", "0", "0", "2">>, <<"127", "1">>,
   <<"0", "0", "0", "0">>, <<"10", "0", "0", "1">>, <<"172", "16", "0", "1">>,
   <<"172", "32", "0", "1">>, <<"192", "168", "0", "1">>, <<"8", "8", "8", "8">>,
   <<"www", "8">>}

InputPorts == {0, 80, 443, 8080}

InputPaths ==
  {<<>>, <<"">>, <<"p">>, <<"p", "">>, <<"p", "", "">>, <<"", "">>,
   <<"b.com">>, <<"50%off">>, <<"data:x">>, <<LongSegment>>}

NestedPublic == Str("https", <<"b", "com">>, 0, <<>>, FALSE, <<>>)
NestedLocal == Str("http", <<"localhost">>, 0, <<"">>, FALSE, <<>>)
NestedTwice ==
  Str("https", <<"c", "com">>, 0, <<"go">>, TRUE, <<NestedPair("url", NestedPublic)>>)

InputQueries ==
  {<<>>,
   <<Pair("utm_source", "x"), Pair("id", "1")>>,
   <<Pair("id", "1"), Pair("utm_id", "2"), Pair("fbclid", "3")>>,
   <<Pair("id", "a%20b"), Pair("gclid", "4"), Pair("id", "a+b")>>,
   <<BarePair("id")>>,
   <<NestedPair("url", NestedPublic)>>,
   <<NestedPair("url", NestedLocal), Pair("mc_eid", "5")>>,
   <<NestedPair("redirect", NestedTwice)>>,
   <<NestedPair("url", NestedPublic), NestedPair("redirect", NestedTwice)>>}

UrlInputs ==
  {Str(scheme, host, port, path, q, query) :
     scheme \in InputSchemes, host \in InputHosts, port \in InputPorts,
     path \in InputPaths, q \in {TRUE}, query \in InputQueries}
  \cup
  {Str(scheme, host, 0, path, FALSE, <<>>) :
     scheme \in InputSchemes \cup {"javascript"}, host \in InputHosts,
     path \in InputPaths}

NoOutput == [fn |-> "none", strs |-> <<>>, result |-> Valid]

UrlIdle ==
  /\ input = NestedPublic
  /\ output = NoOutput

CallNormalizeUrl ==
  /\ output.fn = "none"
  /\ output' = [fn |-> "normalizeUrl", strs |-> <<normalizeUrl(input)>>,
                result |-> Valid]
  /\ UNCHANGED <<input, notUrl>>

\* normalizeUrl applied to its own result
CallNormalizeUrlAgain ==
  /\ output.fn = "normalizeUrl"
  /\ output' = [fn |-> "normalizeUrlTwice",
                strs |-> Append(output.strs, normalizeUrl(output.strs[1])),
                result |-> Valid]
  /\ UNCHANGED <<input, notUrl>>

CallValidateUrl ==
  /\ output.fn = "none"
  /\ output' = [fn |-> "validateUrl", strs |-> <<>>, result |-> validateUrl(input)]
  /\ UNCHANGED <<input, notUrl>>

CallExtractNestedUrls ==
  /\ output.fn = "none"
  /\ output' = [fn |-> "extractNestedUrls", strs |-> extractNestedUrls(input),
                result |-> Valid]
  /\ UNCHANGED <<input, notUrl>>

UrlNext ==
  \/ CallNormalizeUrl
  \/ CallNormalizeUrlAgain
  \/ CallValidateUrl
  \/ CallExtractNestedUrls

(***************************************************************************)
(* The multi-URL analysis route: POST and fetchUrlContent                   *)
(***************************************************************************)
Good == Str("https", <<"a", "com">>, 0, <<"">>, FALSE, <<>>)
GoodHttpWww == Str("http", <<"www", "a", "com">>, 0, <<"">>, FALSE, <<>>)
Local == Str("http", <<"localhost">>, 0, <<"">>, FALSE, <<>>)
WwwLocal == Str("http", <<"www", "localhost">>, 0, <<"">>, FALSE, <<>>)
Short == Str("https", <<"bit", "ly">>, 0, <<"p">>, FALSE, <<>>)
NoScheme == Str("", <<"www", "a", "com">>, 0, <<>>, FALSE, <<>>)

\* request bodies: JSON with a urls array, or text that is not JSON
Body(urls) == [json |-> TRUE, urls |-> urls]
NotJson == [json |-> FALSE, urls |-> <<>>]

\* the sequences of requests one client sends
Sessions ==
  {<<Body(<<Good>>), Body(<<GoodHttpWww, Local, Good>>), Body(<<Good>>)>>,
   <<Body(<<NoScheme, Good>>), Body(<<Local>>), Body(<<>>)>>,
   <<NotJson, Body(<<WwwLocal>>)>>,
   <<Body(<<Short>>)>>,
   <<Body(<<NestedTwice>>)>>,
   <<Body(<<Good, NestedPublic, WwwLocal>>)>>}

\* what getClientIp reads from the request headers
RouteIps == {"ipA"}

\* where a followed redirect of a short URL may end
RedirectTargets == {Good, Local}

\* the limit of substring(0, 5000), scaled
maxContentLength == 2

\* response bodies
Htmls == {"<p>c1</p>", "<script>x</script>", "<p>c1 c2</p>"}

\* the text left of a body by sanitizeHtmlContent, the tag and whitespace
\* replacements and trim, cut by substring(0, maxContentLength)
TextOf(html) ==
  LET text == CASE html = "<p>c1</p>" -> "c1"
                [] html = "<script>x</script>" -> ""
                [] html = "<p>c1 c2</p>" -> "c1 c2"
                [] OTHER -> html
  IN  SubSeq(text, 1, Min(Len(text), maxContentLength))

\* (variant: response.ok is true whatever the status)
HttpResponseAlwaysOk(status) == [ok |-> TRUE, status |-> status]

\* what the content fetch resolves with: the status and response.ok (a
\* status in 200..299); the body comes with response.text()
HttpResponse(status) ==
  [ok |-> status >= 200 /\ status < 300, status |-> status]

ErrorStatuses == {404, 429, 503}

HttpResponses == {HttpResponse(status) : status \in {200} \cup ErrorStatuses}

\* fetch() rejects on a network failure or when the controller aborts it
FetchOutcomes == {Resolves, Rejects(NetworkFailure), Rejects(AbortError)}

GeminiOutcomes == {"json", "text", "httpError", "rejected"}

\* z.string().url(): the string is accepted by new URL()
ZodUrl(str) == ParseURL(str).ok

maxUrls == 20

URLsAnalysisRequestSchema(body) ==
  /\ Len(body.urls) >= 1
  /\ Len(body.urls) <= maxUrls
  /\ \A i \in 1..Len(body.urls) : ZodUrl(body.urls[i])

\* NextResponse.json(...): status, the fields of the body, success
\* ("absent" when the body has no such field), urlCount and which of the
\* route's error messages the body carries
Response(status, fields, success, urlCount, error) ==
  [status |-> status, fields |-> fields, success |-> success,
   urlCount |-> urlCount, error |-> error]

NoResponse == Response(0, {}, "absent", 0, "")
TooManyRequests == Response(429, {"error"}, "absent", 0, "rateLimited")
SchemaRejected == Response(400, {"error"}, "absent", 0, "schema")
NoValidUrls == Response(400, {"error"}, "absent", 0, "noValidUrls")
ServerError == Response(500, {"error"}, "absent", 0, "failed")
NothingFetched ==
  Response(200, {"success", "businessContent", "summaries", "error"},
           "false", 0, "nothingFetched")
ParseFailed ==
  Response(200, {"success", "businessContent", "summaries", "error"},
           "false", 0, "jsonParse")
Analysed(urlCount) ==
  Response(200, {"success", "businessContent", "summaries", "companyInfo",
                 "tags", "urlCount"}, "true", urlCount, "")

Issue(method, url) == [method |-> method, url |-> url]

\* {...DEFAULT_OPTIONS, ...options} for the options fetchUrlContent passes
fetchOptions ==
  [DEFAULT_OPTIONS EXCEPT !.maxRetries = 2, !.initialDelay = 500,
                          !.shouldRetry = "fetchUrlContent"]

IdleRequest ==
  [pc |-> "idle", ip |-> "", limiterChecks |-> 0, allowed |-> TRUE,
   did |-> {}, tasks |-> <<>>, dropped |-> <<>>, analysed |-> <<>>,
   analysis |-> "none", response |-> NoResponse]

RouteIdle ==
  /\ request = IdleRequest
  /\ issued = {}
  /\ counters = [hitCount |-> 0, missCount |-> 0]
  /\ apiKey = TRUE
  /\ inbound = <<>>

\* the validateUrl filter loop
ValidUrls(urls) == SelectSeq(urls, LAMBDA url : validateUrl(url).isValid)

RECURSIVE NestedValid(_)
\* validUrls.forEach: the nested URLs of each that pass validateUrl
NestedValid(validUrls) ==
  IF validUrls = <<>> THEN <<>>
  ELSE ValidUrls(extractNestedUrls(Head(validUrls)))
       \o NestedValid(Tail(validUrls))

AllUrls(validUrls) == validUrls \o NestedValid(validUrls)

\* [...new Set(allUrls.map(url => normalizeUrl(url)))]
UniqueUrls(allUrls) ==
  Dedupe([i \in 1..Len(allUrls) |-> normalizeUrl(allUrls[i])])

\* (variant: no cap, every unique URL gets a callback)
SliceAll(urls) == urls

\* uniqueUrls.slice(0, SliceEnd)
Slice(urls) == SubSeq(urls, 1, Min(Len(urls), SliceEnd))

\* the elements of uniqueUrls that the slice leaves out
Dropped(urls) == SubSeq(urls, SliceEnd + 1, Len(urls))

\* withRetry has returned or thrown: its timer and its log are gone
Settled(rs) == [rs EXCEPT !.delay = 0, !.events = <<>>]

\* one callback of the map: source says where its content came from, status
\* is the status of the response fetchUrlContent got (0: none), deadline is
\* the time at which the timer of fetchUrlContent aborts the controller
NewTask(url) ==
  [url |-> url, targetUrl |-> url, pc |-> "start", rs |-> RetryStart,
   content |-> "", source |-> "none", status |-> 0, deadline |-> 0]

\* (variant: a result goes to the first slot that is still open, next to the
\* URL of that slot)
DeliverInCompletionOrder(tasks, i, task) ==
  LET k == CHOOSE n \in 1..Len(tasks) :
             /\ tasks[n].pc # "done"
             /\ \A m \in 1..(n - 1) : tasks[m].pc = "done"
  IN  [tasks EXCEPT ![k] = [task EXCEPT !.url = tasks[k].url,
                                        !.targetUrl = tasks[k].targetUrl]]

\* the callback of index i returns { url: targetUrl, content }: its result
\* is element i of the array Promise.all resolves with
Deliver(tasks, i, task) == [tasks EXCEPT ![i] = task]

\* (variant: the lookup result is ignored and the URL is fetched anyway)
FetchStartAlways(sh, task, t) ==
  LET cached == CacheGet(sh.cache, task.targetUrl, t)
  IN  [shared |-> [sh EXCEPT !.cache = cached.cache,
                             !.counters.missCount = @ + 1,
                             !.issued = @ \cup {Issue("GET", task.targetUrl)}],
       task |-> [task EXCEPT !.pc = "fetching",
                             !.deadline = t + fetchTimeoutMs,
                             !.rs = RetryCall(RetryStart)]]

\* fetchUrlContent(targetUrl) up to its first await: a hit returns the cached
\* content, a miss calls withRetry, which invokes fetch
FetchStart(sh, task, t) ==
  LET cached == CacheGet(sh.cache, task.targetUrl, t)
  IN  IF cached.ret # <<>>
        THEN [shared |-> [sh EXCEPT !.cache = cached.cache,
                                    !.counters.hitCount = @ + 1],
              task |-> [task EXCEPT !.pc = "done",
                                    !.content = cached.ret[1].content,
                                    !.source = "cache"]]
        ELSE [shared |-> [sh EXCEPT !.cache = cached.cache,
                                    !.counters.missCount = @ + 1,
                                    !.issued = @ \cup {Issue("GET", task.targetUrl)}],
              task |-> [task EXCEPT !.pc = "fetching",
                                    !.deadline = t + fetchTimeoutMs,
                                    !.rs = RetryCall(RetryStart)]]

\* the callback up to its first await: a short URL is probed with HEAD
StartTask(sh, url, t) ==
  IF isShortUrl(url)
    THEN [shared |-> [sh EXCEPT !.issued = @ \cup {Issue("HEAD", url)}],
          task |-> [NewTask(url) EXCEPT !.pc = "probing"]]
    ELSE FetchStart(sh, NewTask(url), t)

RECURSIVE StartTasks(_, _, _)
\* urls.map(async ...): the callbacks start in order
StartTasks(sh, urls, t) ==
  IF urls = <<>> THEN [shared |-> sh, tasks |-> <<>>]
  ELSE LET first == StartTask(sh, Head(urls), t)
           rest == StartTasks(first.shared, Tail(urls), t)
       IN  [shared |-> rest.shared, tasks |-> <<first.task>> \o rest.tasks]

\* (variant: the empty contents are passed on too)
ValidContentsAll(urlContents) == urlContents

\* urlContents.filter(({ content }) => content.length > 0)
ValidContents(urlContents) ==
  SelectSeq(urlContents, LAMBDA r : Len(r.content) > 0)

Shared == [cache |-> cache, counters |-> counters, issued |-> issued]

\* POST from its first statement to its first await on the network
POST(ip) ==
  /\ request.pc \in {"idle", "done"}
  /\ inbound # <<>>
  /\ inbound' = Tail(inbound)
  /\ LET body == Head(inbound)
         rateLimitResult == SlidingCheck(requests, ip, now)
         begun == [IdleRequest EXCEPT !.ip = ip, !.limiterChecks = 1,
                                      !.allowed = rateLimitResult.ret.allowed]
         validUrls == ValidUrls(body.urls)
         uniqueUrls == UniqueUrls(AllUrls(validUrls))
         started ==
           StartTasks([Shared EXCEPT !.issued = {}], Slice(uniqueUrls), now)
         early == CASE ~rateLimitResult.ret.allowed -> <<TooManyRequests>>
                    [] ~body.json -> <<ServerError>>
                    [] ~URLsAnalysisRequestSchema(body) -> <<SchemaRejected>>
                    [] ~apiKey -> <<ServerError>>
                    [] validUrls = <<>> -> <<NoValidUrls>>
                    [] OTHER -> <<>>
     IN  /\ requests' = rateLimitResult.requests
         /\ IF early # <<>>
              THEN /\ request' =
                        [begun EXCEPT !.pc = "done", !.response = early[1],
                                      !.did = IF early[1] = NoValidUrls
                                                THEN {"validate"} ELSE {}]
                   /\ issued' = {}
                   /\ UNCHANGED <<cache, counters>>
              ELSE /\ request' = [begun EXCEPT !.pc = "fetching",
                                               !.did = {"validate"},
                                               !.tasks = started.tasks,
                                               !.dropped = Dropped(uniqueUrls)]
                   /\ issued' = started.shared.issued
                   /\ cache' = started.shared.cache
                   /\ counters' = started.shared.counters
  /\ UNCHANGED <<now, apiKey, notRoute>>

\* the HEAD request of task i settles: rejected (followed = <<>>) or answered
\* from the URL the redirects led to
ProbeSettles(i) ==
  /\ request.pc = "fetching"
  /\ i <= Len(request.tasks)
  /\ request.tasks[i].pc = "probing"
  /\ \E followed \in {<<>>} \cup
                     {<<u>> : u \in RedirectTargets \cup {request.tasks[i].url}} :
       LET task == request.tasks[i]
           targetUrl == IF followed # <<>> /\ followed[1] # task.url
                          THEN followed[1] ELSE task.url
           hops == IF followed = <<>> THEN {} ELSE {Issue("HEAD", followed[1])}
           next == FetchStart([Shared EXCEPT !.issued = @ \cup hops],
                              [task EXCEPT !.targetUrl = targetUrl], now)
       IN  /\ request' = [request EXCEPT !.tasks[i] = next.task]
           /\ issued' = next.shared.issued
           /\ cache' = next.shared.cache
           /\ counters' = next.shared.counters
  /\ UNCHANGED <<now, requests, apiKey, inbound, notRoute>>

\* the fetch of task i settles and fetchUrlContent runs to its next await
\* (the backoff sleep or response.text()) or to its return; it is rejected
\* with AbortError exactly when the timer of the call has fired
FetchSettles(i) ==
  /\ request.pc = "fetching"
  /\ i <= Len(request.tasks)
  /\ request.tasks[i].pc = "fetching"
  /\ request.tasks[i].rs.pc = "awaiting"
  /\ \E outcome \in FetchOutcomes :
     \E rnd \in IF outcome.ok THEN {0} ELSE 0..(RandomSteps - 1),
        response \in IF outcome.ok THEN HttpResponses ELSE {HttpResponse(0)} :
       /\ outcome = Rejects(AbortError) <=> now >= request.tasks[i].deadline
       /\ LET task == request.tasks[i]
              rs == RetrySettle(task.rs, fetchOptions, outcome, rnd)
          IN  request' =
                IF rs.pc = "sleeping"
                  THEN [request EXCEPT !.tasks[i].rs = rs]
                ELSE IF rs.result = Returned /\ response.ok
                  THEN [request EXCEPT !.tasks[i] =
                          [task EXCEPT !.pc = "reading", !.rs = Settled(rs),
                                       !.status = response.status]]
                  ELSE [request EXCEPT !.tasks = Deliver(@, i,
                          [task EXCEPT !.pc = "done", !.rs = Settled(rs),
                                       !.content = "", !.source = "failed",
                                       !.status = IF rs.result = Returned
                                                    THEN response.status
                                                    ELSE 0])]
  /\ UNCHANGED <<now, cache, requests, issued, counters, apiKey, inbound, notRoute>>

\* response.text() of task i settles: the body has arrived, is reduced to
\* its text, stored in the cache and returned, or the read is rejected and
\* the catch block returns ''
BodySettles(i) ==
  /\ request.pc = "fetching"
  /\ i <= Len(request.tasks)
  /\ request.tasks[i].pc = "reading"
  /\ \E read \in BOOLEAN :
     \E html \in IF read THEN Htmls ELSE {""} :
       LET task == request.tasks[i]
           content == TextOf(html)
       IN  IF read
             THEN /\ request' =
                       [request EXCEPT !.tasks = Deliver(@, i,
                          [task EXCEPT !.pc = "done", !.content = content,
                                       !.source = "network"]),
                                       !.did = @ \cup {"cacheWrite"}]
                  /\ cache' = CacheSet(cache, task.targetUrl, content, now)
             ELSE /\ request' =
                       [request EXCEPT !.tasks = Deliver(@, i,
                          [task EXCEPT !.pc = "done", !.content = "",
                                       !.source = "failed"])]
                  /\ UNCHANGED cache
  /\ UNCHANGED <<now, requests, issued, counters, apiKey, inbound, notRoute>>

\* the backoff sleep of task i ends and fetch is invoked again
TaskWakes(i) ==
  /\ request.pc = "fetching"
  /\ i <= Len(request.tasks)
  /\ request.tasks[i].pc = "fetching"
  /\ request.tasks[i].rs.pc = "sleeping"
  /\ request' = [request EXCEPT !.tasks[i].rs = RetryCall(RetryWake(@))]
  /\ issued' = issued \cup {Issue("GET", request.tasks[i].targetUrl)}
  /\ UNCHANGED <<now, cache, requests, counters, apiKey, inbound, notRoute>>

\* Promise.all resolves: filter the contents, answer or call the analysis
AllSettled ==
  /\ request.pc = "fetching"
  /\ \A i \in 1..Len(request.tasks) : request.tasks[i].pc = "done"
  /\ LET validContents == ValidContents(request.tasks)
     IN  IF validContents = <<>>
           THEN request' = [request EXCEPT !.pc = "done",
                                           !.response = NothingFetched]
           ELSE request' =
                  [request EXCEPT !.pc = "analysing",
                                  !.did = @ \cup {"analysis"},
                                  !.analysed =
                                     [i \in 1..Len(validContents) |->
                                        [url |-> validContents[i].targetUrl,
                                         content |-> validContents[i].content]]]
  /\ UNCHANGED <<now, cache, requests, issued, counters, apiKey, inbound, notRoute>>

\* the analysis call settles: JSON, text that is not JSON, an HTTP error
\* status, or a rejected fetch
GeminiSettles ==
  /\ request.pc = "analysing"
  /\ \E g \in GeminiOutcomes :
       request' =
         [request EXCEPT !.pc = "done",
                         !.analysis = g,
                         !.response =
                            CASE g = "json" -> Analysed(Len(request.analysed))
                              [] g = "text" -> ParseFailed
                              [] OTHER -> ServerError]
  /\ UNCHANGED <<now, cache, requests, issued, counters, apiKey, inbound, notRoute>>

\* the callback of the setInterval that getURLCache installs
CacheTimer ==
  /\ cache' = CacheClearExpired(cache, now)
  /\ cache' # cache
  /\ UNCHANGED <<now, requests, routeVars, notRoute>>

RouteNext ==
  \/ \E ip \in RouteIps : POST(ip)
  \/ \E i \in 1..SliceEnd : ProbeSettles(i)
  \/ \E i \in 1..SliceEnd : FetchSettles(i)
  \/ \E i \in 1..SliceEnd : BodySettles(i)
  \/ \E i \in 1..SliceEnd : TaskWakes(i)
  \/ AllSettled
  \/ GeminiSettles
  \/ Tick
  \/ CacheTimer
  \/ CleanupSliding

(***************************************************************************)
(* defaultShouldRetry applied to every error value of ErrorValues          *)
(***************************************************************************)
ErrorNames == {"Error", "TypeError", "NetworkError", "AbortError"}
StatusValues == {0, 399, 400, 404, 429, 499, 500, 599, 600}

ErrorValues ==
  {Err(name, status, timeoutMsg) :
     name \in ErrorNames, status \in StatusValues, timeoutMsg \in BOOLEAN}

CallDefaultShouldRetry ==
  /\ output.fn = "none"
  /\ output' = [fn |-> "defaultShouldRetry", strs |-> <<>>,
                result |-> defaultShouldRetry(input)]
  /\ UNCHANGED <<input, notUrl>>

PredicateNext == CallDefaultShouldRetry

(***************************************************************************)
(* The expand-url route                                                    *)
(***************************************************************************)
\* the empty string
EmptyStr == Str("", <<>>, 0, <<>>, FALSE, <<>>)

\* the atom starts with the prefix, whatever the case of the letters used
StartsWith(atom, prefix) ==
  Len(atom) >= Len(prefix) /\ ToLower(SubSeq(atom, 1, Len(prefix))) = prefix

RedirectWords == {"redirect", "link", "out", "track", "click"}
RedirectKeys == {"url", "link", "redirect", "target", "dest", "destination"}

\* the atoms of the string that follow a "/": the first host label after
\* "//" and every path segment
AfterSlash(url) ==
  (IF url.scheme # "" /\ url.host # <<>> THEN {url.host[1]} ELSE {})
  \cup {url.path[i] : i \in 1..Len(url.path)}

RECURSIVE isRedirectUrl(_)
\* redirectPatterns.some(pattern => pattern.test(url))
isRedirectUrl(url) ==
  \/ \E atom \in AfterSlash(url), word \in RedirectWords : StartsWith(atom, word)
  \/ \E i \in 1..(Len(url.path) - 1) : ToLower(url.path[i]) \in {"r", "go"}
  \/ \E i \in 1..Len(url.query) :
       /\ url.query[i].eq
       /\ \/ ToLower(url.query[i].k) \in RedirectKeys
          \/ url.query[i].nested # <<>> /\ isRedirectUrl(url.query[i].nested[1])

\* the Location header of a 3xx answer: an absolute URL, a path, or text
\* that new URL(location, currentUrl) rejects
AbsoluteLocation(url) == [kind |-> "absolute", target |-> <<url>>, path |-> <<>>]
PathLocation(path) == [kind |-> "path", target |-> <<>>, path |-> path]
BadLocation == [kind |-> "bad", target |-> <<>>, path |-> <<>>]

\* new URL(location, currentUrl).toString(); <<>> when the constructor throws
ResolveLocation(location, currentUrl) ==
  CASE location.kind = "absolute" ->
         IF ParseURL(location.target[1]).ok
           THEN <<Href(ParseURL(location.target[1]))>> ELSE <<>>
    [] location.kind = "path" ->
         IF ParseURL(currentUrl).ok
           THEN <<Href([ParseURL(currentUrl) EXCEPT !.pathname = location.path,
                                                    !.q = FALSE,
                                                    !.search = <<>>])>>
           ELSE <<>>
    [] OTHER -> <<>>

NestedShort ==
  Str("https", <<"a", "com">>, 0, <<"p">>, TRUE, <<NestedPair("u", Short)>>)
RelativeRedirect == Str("", <<"www", "a", "com">>, 0, <<"redirect">>, FALSE, <<>>)

\* the url field of the request bodies
ExpandInputs ==
  {Short, NestedTwice, NestedShort, Good, GoodHttpWww, RelativeRedirect, EmptyStr}

Locations ==
  {AbsoluteLocation(Short), AbsoluteLocation(Good), AbsoluteLocation(NoScheme),
   PathLocation(<<"q">>), BadLocation}

\* how a HEAD probe with redirect: 'manual' settles: rejected (status 0), or
\* a status with or without a Location header
ProbeAnswer(status, location) == [status |-> status, location |-> location]
ProbeOutcomes ==
  {ProbeAnswer(0, <<>>), ProbeAnswer(200, <<>>), ProbeAnswer(302, <<>>)}
  \cup {ProbeAnswer(302, <<location>>) : location \in Locations}

IdleExpand ==
  [pc |-> "idle", url |-> EmptyStr, finalUrl |-> EmptyStr, nestedUrls |-> <<>>,
   isShortUrl |-> FALSE, isRedirectUrl |-> FALSE, redirectChain |-> <<>>,
   error |-> FALSE, currentUrl |-> EmptyStr, redirectCount |-> 0,
   index |-> 1, probes |-> 0, hops |-> <<>>, failure |-> "none",
   failedAfter |-> -1, status |-> 0]

ExpandIdle == expand = IdleExpand

RECURSIVE NestedLoop(_)
\* the for loop over results.nestedUrls from its index to its next await,
\* or to the response when the list is exhausted
NestedLoop(e) ==
  IF e.index > Len(e.nestedUrls)
    THEN [e EXCEPT !.pc = "done", !.nestedUrls = Dedupe(@), !.status = 200]
    ELSE IF \/ isShortUrl(e.nestedUrls[e.index])
            \/ isRedirectUrl(e.nestedUrls[e.index])
      THEN [e EXCEPT !.pc = "nested"]
      ELSE NestedLoop([e EXCEPT !.index = @ + 1])

\* the while loop is left: a missing finalUrl is the last element of the chain
AfterLoop(e) ==
  NestedLoop([e EXCEPT !.finalUrl =
                IF @ = EmptyStr /\ e.redirectChain # <<>>
                  THEN e.redirectChain[Len(e.redirectChain)] ELSE @])

\* (variant: the catch block keeps the URL the loop had reached)
CaughtKeepsCurrent(e) ==
  NestedLoop([e EXCEPT !.error = TRUE, !.finalUrl = e.currentUrl,
                       !.failedAfter = Len(e.redirectChain)])

\* the catch block of the expansion; failure says what threw (the probe or
\* new URL on the Location) and failedAfter notes the length of the chain at
\* that moment
Caught(e) ==
  NestedLoop([e EXCEPT !.error = TRUE, !.finalUrl = e.url,
                       !.failedAfter = Len(e.redirectChain)])

\* (variant: the loop condition is <=)
LoopContinuesOneMore(redirectCount) == redirectCount <= maxRedirects

\* while (redirectCount < maxRedirects)
LoopContinues(redirectCount) == redirectCount < maxRedirects

\* POST of expand-url from its first statement to its first await on the
\* network; json says whether request.json() resolves
ExpandPOST(json, url) ==
  /\ expand.pc = "idle"
  /\ LET results == [IdleExpand EXCEPT !.url = url,
                                       !.isShortUrl = isShortUrl(url),
                                       !.isRedirectUrl = isRedirectUrl(url),
                                       !.nestedUrls = extractNestedUrls(url)]
     IN  expand' =
           IF ~json THEN [IdleExpand EXCEPT !.pc = "done", !.status = 500]
           ELSE IF url = EmptyStr
             THEN [IdleExpand EXCEPT !.pc = "done", !.status = 400]
           ELSE IF results.isShortUrl \/ results.isRedirectUrl
             THEN IF LoopContinues(0)
                    THEN [results EXCEPT !.pc = "probing", !.currentUrl = url,
                                         !.probes = 1]
                    ELSE AfterLoop([results EXCEPT !.currentUrl = url])
             ELSE NestedLoop([results EXCEPT !.finalUrl = normalizeUrl(url)])
  /\ UNCHANGED notExpand

\* the HEAD probe of currentUrl settles and the loop runs to its next probe
\* or to its end
HopSettles ==
  /\ expand.pc = "probing"
  /\ \E outcome \in ProbeOutcomes :
       /\ ParseURL(expand.currentUrl).ok \/ outcome.status = 0
       /\ expand' =
            IF outcome.status = 0
              THEN Caught([expand EXCEPT !.failure = "probe"])
            ELSE IF outcome.status >= 300 /\ outcome.status < 400
              THEN IF outcome.location = <<>> THEN AfterLoop(expand)
                   ELSE LET nextUrl == ResolveLocation(outcome.location[1],
                                                       expand.currentUrl)
                            hop == [location |-> outcome.location[1],
                                    currentUrl |-> expand.currentUrl]
                        IN  IF nextUrl = <<>>
                              THEN Caught([expand EXCEPT !.failure = "location"])
                            ELSE LET e == [expand EXCEPT
                                             !.redirectChain = Append(@, nextUrl[1]),
                                             !.currentUrl = nextUrl[1],
                                             !.redirectCount = @ + 1,
                                             !.hops = Append(@, hop)]
                                 IN  IF LoopContinues(e.redirectCount)
                                       THEN [e EXCEPT !.probes = @ + 1]
                                       ELSE AfterLoop(e)
              ELSE AfterLoop([expand EXCEPT !.finalUrl = expand.currentUrl])
  /\ UNCHANGED notExpand

\* the HEAD probe of a nested URL (redirect: 'follow') settles: rejected
\* (followed = <<>>) or answered from the URL the redirects led to
NestedSettles ==
  /\ expand.pc = "nested"
  /\ LET nestedUrl == expand.nestedUrls[expand.index]
         own == IF ParseURL(nestedUrl).ok
                  THEN {<<Href(ParseURL(nestedUrl))>>} ELSE {}
         led == IF ParseURL(nestedUrl).ok
                  THEN {<<u>> : u \in RedirectTargets} ELSE {}
     IN  \E followed \in {<<>>} \cup own \cup led :
           expand' =
             NestedLoop([expand EXCEPT
                           !.nestedUrls =
                              IF followed # <<>> /\ followed[1] # nestedUrl
                                THEN Append(@, followed[1]) ELSE @,
                           !.index = @ + 1])
  /\ UNCHANGED notExpand

ExpandNext ==
  \/ \E json \in BOOLEAN, url \in ExpandInputs : ExpandPOST(json, url)
  \/ HopSettles
  \/ NestedSettles

(***************************************************************************)
(* BatchURLCache and the counters of URLContentCache                       *)
(***************************************************************************)
BatchIdle == getCalls = 0

\* the URL lists getMany and getMissingUrls are called with
BatchUrls == {"u1", "u2"}
UrlLists ==
  {<<url>> : url \in BatchUrls} \cup {<<a, b>> : a \in BatchUrls, b \in BatchUrls}

RECURSIVE getMany(_, _, _)
\* getMany(urls): the Map and the counters after the loop
getMany(sh, urls, t) ==
  IF urls = <<>> THEN sh
  ELSE LET entry == CacheGet(sh.cache, Head(urls), t)
           counted == IF entry.ret # <<>>
                        THEN [sh EXCEPT !.counters.hitCount = @ + 1]
                        ELSE [sh EXCEPT !.counters.missCount = @ + 1]
       IN  getMany([counted EXCEPT !.cache = entry.cache], Tail(urls), t)

RECURSIVE getMissingUrls(_, _, _)
\* getMissingUrls(urls): the Map and the counters after the filter
getMissingUrls(sh, urls, t) ==
  IF urls = <<>> THEN sh
  ELSE getMissingUrls([sh EXCEPT !.cache = CacheGet(@, Head(urls), t).cache],
                      Tail(urls), t)

\* fetchUrlContent(url) up to its first await
LookupByFetch(url) ==
  /\ getCalls + 1 <= MaxGets
  /\ LET started == FetchStart(Shared, NewTask(url), now)
     IN  /\ cache' = started.shared.cache
         /\ counters' = started.shared.counters
  /\ getCalls' = getCalls + 1
  /\ UNCHANGED <<now, notBatch>>

GetMany(urls) ==
  /\ getCalls + Len(urls) <= MaxGets
  /\ LET sh == getMany(Shared, urls, now)
     IN  cache' = sh.cache /\ counters' = sh.counters
  /\ getCalls' = getCalls + Len(urls)
  /\ UNCHANGED <<now, notBatch>>

GetMissingUrls(urls) ==
  /\ getCalls + Len(urls) <= MaxGets
  /\ LET sh == getMissingUrls(Shared, urls, now)
     IN  cache' = sh.cache /\ counters' = sh.counters
  /\ getCalls' = getCalls + Len(urls)
  /\ UNCHANGED <<now, notBatch>>

\* setMany with one entry, or the cache.set of fetchUrlContent
SetMany(url, content) ==
  /\ cache' = CacheSet(cache, url, content, now)
  /\ UNCHANGED <<now, counters, getCalls, notBatch>>

BatchTick ==
  /\ now + TickMs <= MaxTime
  /\ now' = now + TickMs
  /\ UNCHANGED <<cache, counters, getCalls, notBatch>>

BatchNext ==
  \/ \E url \in BatchUrls : LookupByFetch(url)
  \/ \E urls \in UrlLists : GetMany(urls)
  \/ \E urls \in UrlLists : GetMissingUrls(urls)
  \/ \E url \in BatchUrls, content \in Contents : SetMany(url, content)
  \/ BatchTick

(***************************************************************************)
(* calculateDelay called on its own                                        *)
(***************************************************************************)
\* the initialDelay values the callers of withRetry pass, with the default
\* maxDelay and backoffFactor
DelayInputs ==
  {[attempt |-> attempt, initialDelay |-> initialDelay,
    maxDelay |-> DEFAULT_OPTIONS.maxDelay,
    backoffFactor |-> DEFAULT_OPTIONS.backoffFactor] :
     attempt \in 1..MaxAttempt, initialDelay \in {500, 1000, 2000}}

CallCalculateDelay ==
  /\ output.fn = "none"
  /\ \E rnd \in 0..(RandomSteps - 1) :
       output' = [fn |-> "calculateDelay", strs |-> <<>>,
                  result |-> calculateDelay(input.attempt, input.initialDelay,
                                            input.maxDelay,
                                            input.backoffFactor, rnd)]
  /\ UNCHANGED <<input, notUrl>>

DelayNext == CallCalculateDelay

(***************************************************************************)
(* Specifications: each drives one component and leaves the others idle    *)
(***************************************************************************)
InitCache == now = 0 /\ CacheInit /\ LimiterInit /\ RetryIdle /\ UrlIdle /\ RouteIdle /\ ExpandIdle /\ BatchIdle

SpecCache == InitCache /\ [][CacheNext]_vars

InitLimiter == now = 0 /\ CacheInit /\ LimiterInit /\ RetryIdle /\ UrlIdle /\ RouteIdle /\ ExpandIdle /\ BatchIdle

SpecLimiter == InitLimiter /\ [][LimiterNext]_vars

InitRetry ==
  /\ now = 0 /\ CacheInit /\ LimiterInit /\ UrlIdle /\ RouteIdle /\ ExpandIdle /\ BatchIdle
  /\ \E maxRetries \in 0..MaxRetriesTried, shouldRetry \in Predicates :
       options = [DEFAULT_OPTIONS EXCEPT !.maxRetries = maxRetries,
                                         !.shouldRetry = shouldRetry]
  /\ plan \in [1..(MaxRetriesTried + 1) -> Outcomes]
  /\ retry = RetryStart

SpecRetry == InitRetry /\ [][RetryNext]_vars

InitUrl ==
  /\ now = 0 /\ CacheInit /\ LimiterInit /\ RetryIdle /\ RouteIdle /\ ExpandIdle /\ BatchIdle
  /\ input \in UrlInputs
  /\ output = NoOutput

SpecUrl == InitUrl /\ [][UrlNext]_vars

Init ==
  /\ now = 0 /\ CacheInit /\ LimiterInit /\ RetryIdle /\ UrlIdle /\ ExpandIdle /\ BatchIdle
  /\ request = IdleRequest
  /\ issued = {}
  /\ counters = [hitCount |-> 0, missCount |-> 0]
  /\ apiKey \in BOOLEAN
  /\ inbound \in Sessions

Next == RouteNext

Spec == Init /\ [][Next]_vars

InitPredicate ==
  /\ now = 0 /\ CacheInit /\ LimiterInit /\ RetryIdle /\ RouteIdle /\ ExpandIdle /\ BatchIdle
  /\ input \in ErrorValues
  /\ output = NoOutput

SpecPredicate == InitPredicate /\ [][PredicateNext]_vars

InitDelay ==
  /\ now = 0 /\ CacheInit /\ LimiterInit /\ RetryIdle /\ RouteIdle /\ ExpandIdle
  /\ BatchIdle
  /\ input \in DelayInputs
  /\ output = NoOutput

SpecDelay == InitDelay /\ [][DelayNext]_vars

InitBatch ==
  /\ now = 0 /\ CacheInit /\ LimiterInit /\ RetryIdle /\ UrlIdle /\ RouteIdle
  /\ ExpandIdle /\ BatchIdle

SpecBatch == InitBatch /\ [][BatchNext]_vars

InitExpand ==
  /\ now = 0 /\ CacheInit /\ LimiterInit /\ RetryIdle /\ UrlIdle /\ RouteIdle
  /\ ExpandIdle /\ BatchIdle

SpecExpand == InitExpand /\ [][ExpandNext]_vars

\* every probe carries AbortSignal.timeout, so a pending probe settles
SpecExpandFair ==
  SpecExpand /\ WF_vars(HopSettles) /\ WF_vars(NestedSettles)

(***************************************************************************)
(* Properties of the retry executor                                        *)
(***************************************************************************)
\* the n-th invocation fails with an error the predicate accepts
AcceptedFailure(n) ==
  /\ ~plan[n].ok
  /\ ShouldRetry(options, plan[n].error, n)

\* the number of leading invocations that fail with accepted errors
LeadingFailures ==
  CHOOSE k \in 0..Len(plan) :
    /\ \A n \in 1..k : AcceptedFailure(n)
    /\ k < Len(plan) => ~AcceptedFailure(k + 1)

\* C3: an operation that fails k <= maxRetries times with accepted errors
\* and then succeeds is invoked k + 1 times and its result is returned; one
\* whose first error the predicate rejects is invoked once and that error is
\* raised; one that always fails with accepted errors is invoked
\* maxRetries + 1 times; and no operation is ever invoked more often.
C3_InvocationCount ==
  /\ retry.calls <= options.maxRetries + 1
  /\ retry.pc = "done" =>
       LET k == LeadingFailures
       IN  /\ (k <= options.maxRetries /\ plan[k + 1].ok) =>
                /\ retry.calls = k + 1
                /\ retry.result = Returned
           /\ (~plan[1].ok /\ ~ShouldRetry(options, plan[1].error, 1)) =>
                /\ retry.calls = 1
                /\ retry.result = Raised(plan[1].error)
           /\ (k >= options.maxRetries + 1) =>
                /\ retry.calls = options.maxRetries + 1
                /\ retry.result = Raised(plan[options.maxRetries + 1].error)

\* C3 witness: with maxRetries = 3 the operation failed twice with accepted
\* errors, succeeded on its third invocation, and the call returned.
C3_Witness ==
  /\ retry.pc = "done"
  /\ options.maxRetries = 3
  /\ LeadingFailures = 2
  /\ plan[3].ok
  /\ retry.calls = 3
  /\ retry.result = Returned

\* the operation always failed with accepted errors and the call gave up
C3_WitnessExhausted ==
  /\ retry.pc = "done"
  /\ options.maxRetries >= 2
  /\ LeadingFailures >= options.maxRetries + 1
  /\ retry.result.kind = "raised"

(***************************************************************************)
(* Properties of the rate limiters                                         *)
(***************************************************************************)
Limiters == {"fixed", "sliding"}

\* check i of the log starts from no window: no check was allowed during the
\* windowMs before it
FromNoWindow(log, w, i) ==
  \A j \in 1..(i - 1) : log[j][w].allowed => log[i].t - log[j].t >= windowMs

InWindowOf(log, i, j) == log[j].t - log[i].t < windowMs

\* C2: for one identity, starting from no window, exactly the first
\* maxRequests checks made inside the window are allowed, every later check
\* inside the window is denied with retryAfter >= 1 second, and the first
\* check made after the window has elapsed is allowed again.  It holds of
\* the fixed-window and of the sliding-log limiter.
C2_Quota ==
  \A id \in Ids : \A w \in Limiters :
    LET log == checkLog[id]
    IN  \A i \in 1..Len(log) :
          FromNoWindow(log, w, i) =>
            \A j \in i..Len(log) :
              /\ InWindowOf(log, i, j) =>
                   /\ log[j][w].allowed <=> (j - i + 1 <= maxRequests)
                   /\ ~log[j][w].allowed =>
                        /\ Len(log[j][w].retryAfter) = 1
                        /\ log[j][w].retryAfter[1] >= 1
              /\ ( /\ ~InWindowOf(log, i, j)
                   /\ \A k \in i..(j - 1) : InWindowOf(log, i, k) )
                 => log[j][w].allowed

\* C2 witness: an identity made maxRequests allowed checks, was then denied
\* by both limiters inside the window, and was allowed again once the window
\* had elapsed.
C2_Witness ==
  \E id \in Ids :
    LET log == checkLog[id]
    IN  /\ Len(log) = maxRequests + 2
        /\ \A j \in 1..maxRequests : log[j].fixed.allowed /\ log[j].sliding.allowed
        /\ ~log[maxRequests + 1].fixed.allowed
        /\ ~log[maxRequests + 1].sliding.allowed
        /\ log[maxRequests + 1].fixed.retryAfter[1] >= 1
        /\ log[maxRequests + 2].t - log[1].t >= windowMs
        /\ log[maxRequests + 2].fixed.allowed
        /\ log[maxRequests + 2].sliding.allowed

(***************************************************************************)
(* Properties of the content cache                                         *)
(***************************************************************************)
AllLive(m, t) == \A i \in 1..Len(m) : ~Expired(m[i], t)

\* C1: when the cache holds exactly maxSize live entries and set is called
\* for a key that is not stored, exactly one entry is removed, it is the one
\* whose last access (insertion or successful get) is the oldest, and every
\* other entry stays as it was.
C1_LruEviction ==
  [][ ( /\ lastOp'.op = "set"
        /\ ~MapHas(cache, lastOp'.url)
        /\ Len(cache) = maxSize
        /\ AllLive(cache, now) )
      => /\ lastOp'.removed = {useOrder[1]}
         /\ MapKeys(cache') = (MapKeys(cache) \ {useOrder[1]}) \cup {lastOp'.url}
         /\ \A k \in MapKeys(cache) \ {useOrder[1]} :
              MapGet(cache', k) = MapGet(cache, k) ]_vars

\* C1 witness: a set of a new key has just evicted one entry of a cache that
\* held maxSize live entries.
C1_Witness ==
  /\ lastOp.op = "set"
  /\ Cardinality(lastOp.removed) = 1
  /\ lastOp.url \notin lastOp.removed
  /\ Len(cache) = maxSize
  /\ AllLive(cache, now)

\* C6: a get of a stored entry written by set at time T returns the entry
\* when now - T <= ttl and otherwise returns null and deletes the entry.
C6_TtlBoundary ==
  [][ ( /\ lastOp'.op = "get"
        /\ MapHas(cache, lastOp'.url) )
      => LET url == lastOp'.url
             T == lastSetAt[url]
         IN  /\ T >= 0
             /\ (now - T <= ttl) =>
                   /\ lastOp'.ret = <<MapGet(cache, url)>>
                   /\ MapHas(cache', url)
                   /\ MapGet(cache', url).timestamp = T
             /\ (now - T > ttl) =>
                   /\ lastOp'.ret = <<>>
                   /\ ~MapHas(cache', url) ]_vars

\* C6 witness: a get made at T + ttl + 1 found the entry expired and
\* deleted it.
C6_Witness ==
  /\ lastOp.op = "get"
  /\ lastOp.ret = <<>>
  /\ lastOp.removed = {lastOp.url}

\* a get made exactly at T + ttl still returns the entry
C6_WitnessAtTtl ==
  /\ lastOp.op = "get"
  /\ lastOp.ret # <<>>
  /\ now - lastOp.ret[1].timestamp = ttl

(***************************************************************************)
(* Properties of the URL functions (SpecUrl)                               *)
(***************************************************************************)
\* C4: normalizeUrl is idempotent: for every string new URL() accepts,
\* normalizing the normalized string gives the normalized string again.
C4_Idempotent ==
  (output.fn = "normalizeUrlTwice" /\ ParseURL(input).ok)
    => output.strs[2] = output.strs[1]

\* a query key matching utm_*
IsUtmKey(k) == Len(k) >= 4 /\ SubSeq(k, 1, 4) = "utm_"

IsTrackingKey(k) ==
  IsUtmKey(k) \/ k \in {"fbclid", "gclid", "dclid", "msclkid", "mc_cid", "mc_eid"}

\* C5: for every valid URL the query of normalizeUrl's result is the query of
\* the input without the pairs whose key matches utm_* or is one of fbclid,
\* gclid, dclid, msclkid, mc_cid, mc_eid: those keys are absent, every other
\* pair is kept with its value, in the same relative order.
C5_TrackingRemoved ==
  (output.fn = "normalizeUrl" /\ ParseURL(input).ok)
    => SearchParams(ParseURL(output.strs[1]).search)
         = SelectSeq(SearchParams(ParseURL(input).search),
                     LAMBDA p : ~IsTrackingKey(p.name))

\* the host is a loopback address: localhost, 127.0.0.0/8 or ::1
IsLoopback(hostname) ==
  \/ hostname \in {<<"localhost">>, <<"[::1]">>}
  \/ Len(hostname) = 4 /\ hostname[1] = "127"

\* the host is in 10/8, 172.16/12 or 192.168/16
IsPrivate(hostname) ==
  /\ Len(hostname) = 4
  /\ \/ hostname[1] = "10"
     \/ hostname[1] = "172"
        /\ hostname[2] \in {"16", "17", "18", "19", "20", "21", "22", "23",
                           "24", "25", "26", "27", "28", "29", "30", "31"}
     \/ hostname[1] = "192" /\ hostname[2] = "168"

MustReject(url) ==
  LET urlObj == ParseURL(url)
  IN  \/ url.scheme \notin {"http", "https"}
      \/ urlObj.ok /\ (IsLoopback(urlObj.hostname) \/ IsPrivate(urlObj.hostname))
      \/ StrLen(url) > 2048

\* C10: validateUrl returns isValid:false with an error for every input whose
\* scheme is not http or https, whose host is a loopback or private-network
\* address, or which is longer than 2048 characters; isValid:true is returned
\* only for inputs with none of these properties.
C10_Rejects ==
  (output.fn = "validateUrl" /\ MustReject(input))
    => (~output.result.isValid /\ output.result.error # "")

(***************************************************************************)
(* Properties of the multi-URL route (Spec)                                *)
(***************************************************************************)
\* a task whose URL was fetched successfully: it ended with content, from
\* the cache or from a 2xx answer
Fetched(task) == task.pc = "done" /\ task.content # ""

FetchedTasks == {i \in DOMAIN request.tasks : Fetched(request.tasks[i])}

\* C7: in a request in which at least one URL was fetched successfully, the
\* URLs that failed never make the request fail: each task whose fetch failed
\* has empty content, the analysis service is called with exactly the
\* non-empty contents, one entry per successful task, and when the service
\* answers with JSON the response is the success response counting them.
C7_FailureIsolation ==
  (request.pc \in {"analysing", "done"} /\ FetchedTasks # {})
    => /\ "analysis" \in request.did
       /\ \A i \in DOMAIN request.tasks :
            request.tasks[i].source = "failed" => request.tasks[i].content = ""
       /\ Len(request.analysed) = Cardinality(FetchedTasks)
       /\ \A j \in DOMAIN request.analysed :
            /\ request.analysed[j].content # ""
            /\ \E i \in FetchedTasks :
                 request.analysed[j] =
                   [url |-> request.tasks[i].targetUrl,
                    content |-> request.tasks[i].content]
       /\ \A i \in FetchedTasks :
            \E j \in DOMAIN request.analysed :
              request.analysed[j] =
                [url |-> request.tasks[i].targetUrl,
                 content |-> request.tasks[i].content]
       /\ request.pc = "done" =>
            /\ request.response.error \notin {"schema", "noValidUrls", "nothingFetched"}
            /\ request.analysis = "json" =>
                 request.response = Analysed(Cardinality(FetchedTasks))

\* one URL of the batch failed, another was fetched, and the request succeeded
C7_Witness ==
  /\ request.pc = "done"
  /\ \E i, j \in DOMAIN request.tasks :
       /\ request.tasks[i].source = "failed"
       /\ request.tasks[j].source = "network"
       /\ Fetched(request.tasks[j])
  /\ request.response.success = "true"
  /\ request.response.urlCount = 1

\* C8: the limiter is consulted exactly once per request, before anything is
\* done with a URL; when it denies, the response has status 429 and a
\* retryAfterSeconds field, and no probe, fetch, cache write or analysis call
\* happens for the request.
C8_RateLimitGate ==
  request.pc # "idle"
    => /\ request.limiterChecks = 1
       /\ ~request.allowed =>
            /\ request.pc = "done"
            /\ request.response.status = 429
            /\ "retryAfterSeconds" \in request.response.fields
            /\ issued = {}
            /\ request.did = {}

\* C9: every URL an HTTP request is issued to (redirect probe, followed
\* redirect or content fetch) passes validateUrl.
C9_IssuedUrlsValid == \A r \in issued : validateUrl(r.url).isValid

\* the fetch of a task ended in a connection failure or in a 5xx or 429 answer
TransientFailure(task) ==
  \/ task.rs.result = Raised(NetworkFailure)
  \/ task.rs.result = Returned /\ task.status >= 500 /\ task.status < 600
  \/ task.rs.result = Returned /\ task.status = 429

\* C11: a content fetch that ends in a connection failure, a 5xx or a 429 is
\* retried up to 2 times: the URL degrades to empty content only after 3
\* attempts, and no URL is fetched more than 3 times.
C11_RetryPolicy ==
  \A i \in DOMAIN request.tasks :
    LET task == request.tasks[i]
    IN  /\ task.rs.calls <= fetchOptions.maxRetries + 1
        /\ (task.pc = "done" /\ task.source = "failed" /\ TransientFailure(task))
             => task.rs.calls = fetchOptions.maxRetries + 1

\* the error has a 4xx status other than 429
ClientError(error) ==
  error.status >= 400 /\ error.status < 500 /\ error.status # 429

\* the error is network-class, a timeout or abort, a 5xx or a 429
Retryable(error) ==
  \/ error.name \in {"NetworkError", "TypeError", "AbortError"}
  \/ error.timeoutMsg
  \/ error.status >= 500 /\ error.status < 600
  \/ error.status = 429

\* C12: defaultShouldRetry returns false for every error with a 4xx status
\* other than 429, whatever its name or message, and true for the other
\* errors that are network-class, timeouts or aborts, 5xx or 429.
C12_DefaultPredicate ==
  output.fn = "defaultShouldRetry"
    => /\ ClientError(input) => output.result = FALSE
       /\ (~ClientError(input) /\ Retryable(input)) => output.result = TRUE

(***************************************************************************)
(* Properties of the redirect resolver of expand-url                       *)
(***************************************************************************)
\* the chain is the list of the hops' Location headers, each resolved
\* against the URL the loop was at when the header arrived, in hop order
ChainFollowsHops ==
  /\ Len(expand.redirectChain) = Len(expand.hops)
  /\ \A i \in 1..Len(expand.hops) :
       /\ <<expand.redirectChain[i]>> =
            ResolveLocation(expand.hops[i].location, expand.hops[i].currentUrl)
       /\ expand.hops[i].currentUrl =
            IF i = 1 THEN expand.url ELSE expand.redirectChain[i - 1]

\* C13: for every sequence of probe answers the resolver issues at most
\* maxRedirects probes, the chain has at most maxRedirects elements and lists
\* every hop's Location resolved against the then-current URL in hop order,
\* and a running loop comes to its end
C13_BoundedRedirects ==
  /\ [](/\ expand.probes <= maxRedirects
        /\ Len(expand.redirectChain) <= maxRedirects
        /\ ChainFollowsHops)
  /\ (expand.pc = "probing") ~> (expand.pc # "probing")

\* a cyclic redirect runs into the cap, with a relative Location on the way
C13_Witness ==
  /\ expand.pc = "done"
  /\ expand.probes = maxRedirects
  /\ Len(expand.redirectChain) = maxRedirects
  /\ \E i, j \in 1..Len(expand.redirectChain) :
       i < j /\ expand.redirectChain[i] = expand.redirectChain[j]
  /\ \E i \in 1..Len(expand.hops) :
       /\ expand.hops[i].location.kind = "path"
       /\ expand.hops[i].currentUrl # expand.url

\* C14: when a hop's probe is rejected (transport error or timeout), the
\* result has finalUrl equal to the original URL and the chain holds exactly
\* the hops recorded before the failure, and the request goes on to answer
\* 200 with that result
C14_FailureNotFatal ==
  /\ [](expand.failure = "probe" =>
          /\ expand.finalUrl = expand.url
          /\ Len(expand.redirectChain) = expand.failedAfter
          /\ ChainFollowsHops
          /\ expand.pc = "done" => expand.status = 200)
  /\ (expand.failure = "probe") ~> (expand.pc = "done" /\ expand.status = 200)

\* a probe is rejected after one hop was recorded; the request has answered
C14_Witness ==
  /\ expand.pc = "done"
  /\ expand.failure = "probe"
  /\ expand.failedAfter >= 1
  /\ expand.currentUrl # expand.url

(***************************************************************************)
(* Properties of the cache lookup of fetchUrlContent                       *)
(***************************************************************************)
\* task i of the request reaches the cache lookup of fetchUrlContent in this
\* step: at the start of the request, or when its HEAD probe settles
LooksUp(i) ==
  /\ request'.pc = "fetching"
  /\ i \in 1..Len(request'.tasks)
  /\ request'.tasks[i].pc # "probing"
  /\ request.pc \in {"idle", "done"} \/ request.tasks[i].pc = "probing"

\* the cache holds an unexpired entry for url
Unexpired(url) == MapHas(cache, url) /\ ~Expired(MapGet(cache, url), now)

\* the GET requests this step issues
NewGets ==
  {x \in issued' : x.method = "GET"}
    \ (IF request.pc \in {"idle", "done"} THEN {} ELSE issued)

\* C15: a lookup that finds an unexpired entry for the resolved URL returns
\* that entry's content and issues no HTTP request for the URL; a lookup that
\* finds none issues the GET; no task served from the cache ever called fetch
C15_CacheFirst ==
  /\ [](\A i \in 1..Len(request.tasks) :
          request.tasks[i].source = "cache" => request.tasks[i].rs.calls = 0)
  /\ [][\A i \in 1..Len(request'.tasks) :
          LooksUp(i) =>
            LET task == request'.tasks[i]
            IN  IF Unexpired(task.targetUrl)
                  THEN /\ task.pc = "done"
                       /\ task.source = "cache"
                       /\ task.content = MapGet(cache, task.targetUrl).content
                       /\ task.rs.calls = 0
                       /\ Issue("GET", task.targetUrl) \notin NewGets
                  ELSE /\ task.pc = "fetching"
                       /\ task.rs.calls = 1
                       /\ Issue("GET", task.targetUrl) \in NewGets]_vars

\* a request was served from the cache: its only task is done with the
\* cached content and the request issued nothing
C15_Witness ==
  /\ request.pc = "done"
  /\ Len(request.tasks) = 1
  /\ request.tasks[1].source = "cache"
  /\ request.tasks[1].content # ""
  /\ issued = {}

(***************************************************************************)
(* Properties of the batch cap                                             *)
(***************************************************************************)
Range(seq) == {seq[i] : i \in 1..Len(seq)}

\* the response the handler gives for the tasks it ran and the way the
\* analysis call settled
ResponseFor(tasks, analysis) ==
  IF ValidContents(tasks) = <<>> THEN NothingFetched
  ELSE CASE analysis = "json" -> Analysed(Len(ValidContents(tasks)))
         [] analysis = "text" -> ParseFailed
         [] OTHER -> ServerError

\* C16: an accepted request runs at most SliceEnd callbacks; a URL beyond
\* the cap is neither probed nor fetched nor analysed, and the response is
\* the one the callbacks that ran give
C16_BatchCap ==
  /\ Len(request.tasks) <= SliceEnd
  /\ \A url \in Range(request.dropped) :
       /\ \A i \in 1..Len(request.tasks) :
            request.tasks[i].url # url /\ request.tasks[i].targetUrl # url
       /\ \A x \in issued : x.url # url
       /\ \A i \in 1..Len(request.analysed) : request.analysed[i].url # url
  /\ Cardinality({x \in issued : x.method = "GET"}) <= SliceEnd
  /\ request.pc = "done" /\ request.tasks # <<>> =>
       request.response = ResponseFor(request.tasks, request.analysis)

\* a request with more unique URLs than the cap was analysed with the
\* contents of exactly SliceEnd URLs
C16_Witness ==
  /\ request.pc = "done"
  /\ request.dropped # <<>>
  /\ Len(request.tasks) = SliceEnd
  /\ request.response = Analysed(SliceEnd)

(***************************************************************************)
(* Properties of the analysis step                                         *)
(***************************************************************************)
\* C17: when content was fetched for at least one URL and the analysis
\* service answers with an error status or with text that is not JSON, the
\* response is 200 with success false
C17_AnalysisFailureDegrades ==
  /\ request.pc = "done"
  /\ request.analysed # <<>>
  /\ request.analysis \in {"httpError", "text"}
  => /\ request.response.status = 200
     /\ request.response.success = "false"

(***************************************************************************)
(* Properties of extractNestedUrls                                         *)
(***************************************************************************)
RECURSIVE NestedCalls(_)
\* the recursive calls extractNestedUrls(url) gives rise to, each with the
\* argument of the calling invocation and its own
NestedCalls(url) ==
  LET urlObj == ParseURL(url)
      params == SearchParams(urlObj.search)
  IN  IF ~urlObj.ok THEN {}
      ELSE UNION {IF params[i].nested # <<>> /\ isUrlLike(params[i].nested[1])
                    THEN {[caller |-> url, callee |-> params[i].nested[1]]}
                         \cup NestedCalls(params[i].nested[1])
                    ELSE {} : i \in 1..Len(params)}

\* C18: extractNestedUrls returns for every input; for a string new URL()
\* rejects the list is empty, every recursive call gets a strictly shorter
\* string than its caller, and the list has no duplicates
C18_ExtractNestedUrls ==
  output.fn = "extractNestedUrls" =>
    /\ ~ParseURL(input).ok => output.strs = <<>>
    /\ \A c \in NestedCalls(input) : StrLen(c.callee) < StrLen(c.caller)
    /\ \A i, j \in 1..Len(output.strs) :
         output.strs[i] = output.strs[j] => i = j

\* a URL whose query names one nested URL twice, once inside another: three
\* recursive calls, two results
C18_Witness ==
  /\ output.fn = "extractNestedUrls"
  /\ Cardinality(NestedCalls(input)) = 3
  /\ Len(output.strs) = 2

(***************************************************************************)
(* Properties of the cache size and of the hit and miss counters           *)
(***************************************************************************)
\* C19: whatever sequence of get, set, clearExpired and clear calls has run,
\* the Map holds at most maxSize entries
C19_Capacity == Len(cache) <= maxSize

\* a set of a new key on a full Map that still held an expired entry: one
\* entry went and the Map is full again
C19_Witness ==
  /\ lastOp.op = "set"
  /\ lastOp.removed # {}
  /\ lastOp.url \notin lastOp.removed
  /\ Len(cache) = maxSize
  /\ \E i \in 1..Len(cache) : Expired(cache[i], now)

\* C20: every lookup is counted exactly once: the hits and the misses add
\* up to the number of get calls made by fetchUrlContent, getMany and
\* getMissingUrls
C20_Accounting == counters.hitCount + counters.missCount = getCalls

(***************************************************************************)
(* Properties of the backoff delay                                         *)
(***************************************************************************)
\* b = min(maxDelay, initialDelay * backoffFactor^(a-1))
BackoffBase(in, a) ==
  LET grown == in.initialDelay * Pow(in.backoffFactor, a - 1)
  IN  IF grown < in.maxDelay THEN grown ELSE in.maxDelay

InStepOrder(events) ==
  \A i \in 1..Len(events) :
    events[i] = CASE i % 3 = 1 -> "call"
                  [] i % 3 = 2 -> "onRetry"
                  [] OTHER -> "sleep"

Count(events, e) == Cardinality({i \in 1..Len(events) : events[i] = e})

\* C22: a failed attempt that is not the last allowed one and whose error
\* the predicate accepts is followed by one observer call, one sleep with the
\* computed delay and the next attempt; any other failure raises the error
\* of that attempt with no observer call and no sleep after it; the observer
\* is called once less than fn
C22_StepOrder ==
  /\ [](/\ InStepOrder(retry.events)
        /\ retry.pc = "done" =>
             /\ retry.events[Len(retry.events)] = "call"
             /\ Count(retry.events, "onRetry") = retry.calls - 1
             /\ Count(retry.events, "sleep") = retry.calls - 1
             /\ retry.result.kind = "raised" =>
                  retry.result.error = plan[retry.calls].error)
  /\ [][retry.pc = "awaiting" /\ ~plan[retry.calls].ok =>
          IF /\ retry.attempt <= options.maxRetries
             /\ ShouldRetry(options, plan[retry.calls].error, retry.attempt)
            THEN /\ retry'.pc = "sleeping"
                 /\ retry'.events = retry.events \o <<"onRetry", "sleep">>
                 /\ \E rnd \in 0..(RandomSteps - 1) :
                      retry'.delay =
                        calculateDelay(retry.attempt, options.initialDelay,
                                       options.maxDelay, options.backoffFactor,
                                       rnd)
            ELSE /\ retry'.pc = "done"
                 /\ retry'.events = retry.events
                 /\ retry'.result = Raised(plan[retry.calls].error)]_vars
  /\ [][retry.pc = "sleeping" =>
          /\ retry'.pc = "attempt"
          /\ retry'.attempt = retry.attempt + 1]_vars

\* three attempts failed with accepted errors and the fourth, the last
\* allowed, failed too: three observer calls and three sleeps
C22_Witness ==
  /\ retry.pc = "done"
  /\ retry.result.kind = "raised"
  /\ retry.calls = 4
  /\ Count(retry.events, "onRetry") = 3
  /\ Len(retry.events) = 10

(***************************************************************************)
(* Properties of what a check writes                                       *)
(***************************************************************************)
\* this step is a check call for identifier
Checks(identifier) ==
  Len(checkLog'[identifier]) = Len(checkLog[identifier]) + 1

\* C23: of the fixed-window limiter, a denied check leaves the identifier's
\* window as it is, an allowed check inside an active window adds 1 to count
\* and keeps the reset time, a check on a missing or elapsed window replaces
\* it with count 1 and reset time now + windowMs, and no check changes the
\* window of another identifier
C23_CheckFrame ==
  [][\A identifier \in Ids :
       Checks(identifier) =>
         LET ret == checkLog'[identifier][Len(checkLog'[identifier])].fixed
             old == store[identifier]
             new == store'[identifier]
         IN  /\ \A other \in Ids \ {identifier} : store'[other] = store[other]
             /\ ~ret.allowed => new = old
             /\ IF old = <<>> \/ now >= old[1].resetTime
                  THEN /\ ret.allowed
                       /\ new = <<[count |-> 1, resetTime |-> now + windowMs]>>
                  ELSE ret.allowed =>
                         /\ new[1].count = old[1].count + 1
                         /\ new[1].resetTime = old[1].resetTime]_vars

\* one identifier was denied inside its window, which holds maxRequests,
\* while another identifier has a window of its own
C23_Witness ==
  \E identifier \in Ids, other \in Ids :
    /\ other # identifier
    /\ store[other] # <<>>
    /\ store[identifier] # <<>>
    /\ store[identifier][1].count = maxRequests
    /\ checkLog[identifier] # <<>>
    /\ ~checkLog[identifier][Len(checkLog[identifier])].fixed.allowed

(***************************************************************************)
(* Properties of the limiters' cleanup                                     *)
(***************************************************************************)
RECURSIVE FixedReplay(_, _, _)
\* the store of a fixed-window limiter that made the first k checks of log
\* for identifier and never ran cleanup
FixedReplay(log, identifier, k) ==
  IF k = 0 THEN [id \in Ids |-> <<>>]
  ELSE FixedCheck(FixedReplay(log, identifier, k - 1), identifier, log[k].t).store

RECURSIVE SlidingReplay(_, _, _)
\* the same for the sliding-log limiter
SlidingReplay(log, identifier, k) ==
  IF k = 0 THEN [id \in Ids |-> <<>>]
  ELSE SlidingCheck(SlidingReplay(log, identifier, k - 1), identifier,
                    log[k].t).requests

\* C24: cleanup removes only windows and timestamps that have elapsed, and
\* every check answers as the same check does on a limiter with the same
\* history of checks on which cleanup never ran
C24_CleanupTransparent ==
  /\ [](\A identifier \in Ids :
          LET log == checkLog[identifier]
          IN  \A k \in 1..Len(log) :
                /\ log[k].fixed =
                     FixedCheck(FixedReplay(log, identifier, k - 1),
                                identifier, log[k].t).ret
                /\ log[k].sliding =
                     SlidingCheck(SlidingReplay(log, identifier, k - 1),
                                  identifier, log[k].t).ret)
  /\ [][checkLog' = checkLog /\ now' = now =>
          \A identifier \in Ids :
            /\ \/ store'[identifier] = store[identifier]
               \/ /\ store'[identifier] = <<>>
                  /\ store[identifier][1].resetTime <= now
            /\ \/ requests'[identifier] = requests[identifier]
               \/ requests'[identifier] =
                    SelectSeq(requests[identifier],
                              LAMBDA time : ~(now - time >= windowMs))]_vars

\* cleanup has removed the elapsed window and the elapsed timestamps of one
\* identifier, and another identifier was checked at that time or later and
\* allowed into a new window
C24_Witness ==
  \E identifier \in Ids, other \in Ids :
    /\ checkLog[identifier] # <<>>
    /\ store[identifier] = <<>>
    /\ requests[identifier] = <<>>
    /\ Len(checkLog[other]) >= 2
    /\ checkLog[other][Len(checkLog[other])].t >= checkLog[identifier][1].t + windowMs
    /\ checkLog[other][Len(checkLog[other])].fixed.allowed
    /\ store[other] = <<[count |-> 1, resetTime |-> now + windowMs]>>

(***************************************************************************)
(* Properties of the deadline of fetchUrlContent                           *)
(***************************************************************************)
\* task i of the request under way is inside withRetry
Fetching(i) ==
  /\ request.pc = "fetching"
  /\ i \in 1..Len(request.tasks)
  /\ request.tasks[i].pc = "fetching"

\* C25: the deadline of a URL is set once, fetchTimeoutMs after the lookup,
\* and stays the same over all attempts; an attempt is aborted only when it
\* has passed; the attempt that is aborted is the last one of the URL, and
\* the URL's result is the empty content
C25_FetchDeadline ==
  /\ [](\A i \in 1..Len(request.tasks) :
          LET task == request.tasks[i]
          IN  task.rs.result = Raised(AbortError) =>
                /\ task.pc = "done"
                /\ task.content = ""
                /\ now >= task.deadline)
  /\ [][\A i \in 1..Len(request.tasks) :
          Fetching(i) =>
            /\ request'.tasks[i].deadline = request.tasks[i].deadline
            /\ (request.tasks[i].rs.pc = "awaiting"
                  /\ now >= request.tasks[i].deadline
                  /\ request'.tasks[i] # request.tasks[i]) =>
                 /\ request'.tasks[i].pc = "done"
                 /\ request'.tasks[i].rs.result = Raised(AbortError)
                 /\ request'.tasks[i].rs.calls = request.tasks[i].rs.calls
                 /\ request'.tasks[i].content = ""
                 /\ cache' = cache]_vars
  /\ [][\A i \in 1..Len(request.tasks) :
          (request.pc = "fetching" /\ request.tasks[i].pc = "done") =>
            /\ i <= Len(request'.tasks)
            /\ request'.tasks[i] = request.tasks[i]]_vars

\* the timer set before the first attempt aborted the third attempt of a URL
C25_Witness ==
  \E i \in 1..Len(request.tasks) :
    /\ request.tasks[i].pc = "done"
    /\ request.tasks[i].rs.calls = 3
    /\ request.tasks[i].rs.result = Raised(AbortError)
    /\ request.tasks[i].deadline = fetchTimeoutMs

(***************************************************************************)
(* Properties of the results of the concurrent callbacks                   *)
(***************************************************************************)
\* C26: whatever the order in which the callbacks complete, a callback's
\* completion changes its own result only, a result keeps the URL of its
\* callback, its content is what its own fetch stored under that URL or what
\* the cache held for that URL, and the analysis gets every non-empty result
\* with its own URL
C26_ResultPairing ==
  /\ [](request.analysed # <<>> =>
          LET valid == ValidContents(request.tasks)
          IN  request.analysed =
                [i \in 1..Len(valid) |-> [url |-> valid[i].targetUrl,
                                          content |-> valid[i].content]])
  /\ [][(request.pc = "fetching" /\ request'.pc = "fetching") =>
          \A i \in 1..Len(request.tasks) :
            LET old == request.tasks[i]
                new == request'.tasks[i]
            IN  /\ new.url = old.url
                /\ old.pc # "probing" => new.targetUrl = old.targetUrl
                /\ old.pc = "done" => new = old
                /\ (old.pc # "done" /\ new.pc = "done") =>
                     /\ \A j \in 1..Len(request.tasks) :
                          j # i => request'.tasks[j] = request.tasks[j]
                     /\ new.source = "network" =>
                          /\ MapHas(cache', new.targetUrl)
                          /\ MapGet(cache', new.targetUrl).content = new.content
                     /\ new.source = "cache" =>
                          /\ MapHas(cache, new.targetUrl)
                          /\ MapGet(cache, new.targetUrl).content = new.content
                     /\ new.source = "failed" => new.content = ""]_vars

\* the second callback has completed with content from the network, stored
\* under its own URL, while the first is still waiting for its fetch
C26_Witness ==
  /\ request.pc = "fetching"
  /\ Len(request.tasks) = 2
  /\ request.tasks[1].pc = "fetching"
  /\ request.tasks[1].rs.pc = "awaiting"
  /\ request.tasks[2].pc = "done"
  /\ request.tasks[2].source = "network"
  /\ request.tasks[2].content # ""
  /\ request.tasks[2].targetUrl # request.tasks[1].targetUrl
  /\ ~MapHas(cache, request.tasks[1].targetUrl)

(***************************************************************************)
(* Properties of an overwriting set                                        *)
(***************************************************************************)
\* C27: after set on a key that is already stored, the key's timestamp is
\* fresh and the key is the most recently used one: with the cache at
\* capacity, the insertion of any new key leaves it in the cache
C27_OverwriteIsUse ==
  [][(lastOp'.op = "set" /\ MapHas(cache, lastOp'.url)) =>
       /\ MapGet(cache', lastOp'.url).timestamp = now
       /\ (Len(cache') = maxSize /\ maxSize >= 2) =>
            \A url \in CacheKeys \ MapKeys(cache'), content \in Contents :
              MapHas(CacheSet(cache', url, content, now), lastOp'.url)]_vars

(***************************************************************************)
(* Properties of the finalUrl of expand-url                                *)
(***************************************************************************)
\* C28: whatever the probes answer, the result of an answered request has a
\* finalUrl that is not empty and is the original URL, its normalization or
\* the last element of the redirect chain
C28_UsableFinalUrl ==
  (expand.pc = "done" /\ expand.status = 200) =>
     /\ expand.finalUrl # EmptyStr
     /\ \/ expand.finalUrl \in {expand.url, normalizeUrl(expand.url)}
        \/ /\ expand.redirectChain # <<>>
           /\ expand.finalUrl = expand.redirectChain[Len(expand.redirectChain)]

(***************************************************************************)
(* Properties of the sliding-log limiter                                   *)
(***************************************************************************)
\* the times of the allowed sliding-log checks of log that lie in (t - windowMs, t]
AllowedIn(log, t) ==
  {k \in 1..Len(log) :
     log[k].sliding.allowed /\ log[k].t > t - windowMs /\ log[k].t <= t}

\* C29: of the sliding-log limiter, for each identity and every time t at
\* most maxRequests checks were allowed in (t - windowMs, t]; a denied check
\* records nothing; and a denied check's retryAfter is the number of whole
\* seconds, rounded up, until the oldest recorded request of the window
\* leaves it, which is at least 1
C29_SlidingBound ==
  /\ [](\A identifier \in Ids :
          LET log == checkLog[identifier]
          IN  \A t \in {now} \cup {log[k].t : k \in 1..Len(log)} :
                Cardinality(AllowedIn(log, t)) <= maxRequests)
  /\ [][\A identifier \in Ids :
          Checks(identifier) =>
            LET log == checkLog[identifier]
                ret == checkLog'[identifier][Len(checkLog'[identifier])].sliding
                inWindow == AllowedIn(log, now)
                oldest == CHOOSE k \in inWindow : \A m \in inWindow : k <= m
                leaves == log[oldest].t + windowMs - now
            IN  /\ ret.allowed <=> Cardinality(inWindow) < maxRequests
                /\ ~ret.allowed =>
                     /\ requests' = requests
                     /\ Len(ret.retryAfter) = 1
                     /\ ret.retryAfter[1] >= 1
                     /\ ret.retryAfter[1] * MsPerSecond >= leaves
                     /\ (ret.retryAfter[1] - 1) * MsPerSecond < leaves
                /\ ret.allowed =>
                     /\ requests'[identifier] # <<>>
                     /\ requests'[identifier][Len(requests'[identifier])] = now
                     /\ \A other \in Ids \ {identifier} :
                          requests'[other] = requests[other]]_vars

\* an identity was allowed maxRequests times, denied while the oldest of them
\* was still in the window, and allowed again after the oldest had left the
\* window while a later one was still in it
C29_Witness ==
  \E identifier \in Ids :
    LET log == checkLog[identifier]
    IN  \E i, j \in 1..Len(log) :
          /\ i < j
          /\ ~log[i].sliding.allowed
          /\ log[j].sliding.allowed
          /\ log[j].t - log[1].t >= windowMs
          /\ Cardinality(AllowedIn(log, log[j].t)) = maxRequests

(***************************************************************************)
(* Properties of the cache writes of fetchUrlContent                       *)
(***************************************************************************)
\* the call of fetchUrlContent of task i returns in this step from the
\* network path (not from the cache lookup)
ReturnsFromFetch(i) ==
  /\ i \in 1..Len(request.tasks)
  /\ request.pc = "fetching"
  /\ request.tasks[i].pc \in {"fetching", "reading"}
  /\ request'.tasks[i].pc = "done"

\* C30: fetchUrlContent stores an entry in the cache exactly when its fetch
\* resolved with a 2xx status and the body was read: the entry is stored
\* under the fetched URL with the content the call returns, which has at most
\* maxContentLength characters, and no other entry is stored or altered; a
\* call whose fetch failed, timed out or answered another status, or whose
\* body could not be read, returns '' and leaves the cache as it is; and no
\* other step of the route stores or alters an entry, however the callbacks
\* interleave
C30_WritesOnSuccess ==
  [][/\ \A i \in 1..SliceEnd :
          ReturnsFromFetch(i) =>
            LET old == request.tasks[i]
                new == request'.tasks[i]
            IN  IF old.pc = "reading" /\ new.source = "network"
                  THEN /\ old.status >= 200 /\ old.status < 300
                       /\ \E html \in Htmls : new.content = TextOf(html)
                       /\ Len(new.content) <= maxContentLength
                       /\ MapHas(cache', old.targetUrl)
                       /\ MapGet(cache', old.targetUrl) =
                            [url |-> old.targetUrl, content |-> new.content,
                             timestamp |-> now]
                       /\ Range(cache') \ Range(cache)
                            \subseteq {MapGet(cache', old.targetUrl)}
                  ELSE /\ new.content = ""
                       /\ cache' = cache
     /\ Range(cache') \ Range(cache) # {} =>
          \E i \in 1..SliceEnd :
            /\ ReturnsFromFetch(i)
            /\ request.tasks[i].pc = "reading"
            /\ request'.tasks[i].source = "network"]_vars

\* of two concurrent callbacks one was answered 404 and the other read a body
\* whose text fills the limit: the cache holds that text under the URL of the
\* second and nothing under the URL of the first
C30_Witness ==
  /\ Len(request.tasks) = 2
  /\ request.tasks[1].pc = "done"
  /\ request.tasks[1].source = "failed"
  /\ request.tasks[1].status = 404
  /\ ~MapHas(cache, request.tasks[1].targetUrl)
  /\ request.tasks[2].pc = "done"
  /\ request.tasks[2].source = "network"
  /\ Len(request.tasks[2].content) = maxContentLength
  /\ MapHas(cache, request.tasks[2].targetUrl)
  /\ MapGet(cache, request.tasks[2].targetUrl).content = request.tasks[2].content
  /\ Len(cache) = 1

====
